---------------------------- MODULE Spec2Model ----------------------------
(***************************************************************************)
(* Model of the server-side maze engine of Labyrinth Survival              *)
(* (src/server/game/MazeGenerator.js): maze generation, the solvability    *)
(* validator and the periodic wall shift.                                  *)
(*                                                                         *)
(* The grid keeps the source's encoding: mazeGrid[x][y] = TRUE is a wall,  *)
(* FALSE is a path.  Time is kept in milliseconds (the source keeps        *)
(* seconds and subtracts deltaTime / 1000).                                *)
(*                                                                         *)
(* Math.random() is the source of every random choice.  It is modelled as  *)
(* a 16-bit linear congruential generator whose seed is chosen when the    *)
(* MazeGenerator is constructed; every call site of Math.random() in the   *)
(* source consumes the next value, in the source's order.                  *)
(***************************************************************************)
EXTENDS Integers, Sequences, FiniteSets

VARIABLES
    width,          \* this.width
    height,         \* this.height
    mazeGrid,       \* this.mazeGrid: [0..width-1 -> [0..height-1 -> BOOLEAN]], TRUE = wall
    exitPosition,   \* this.exitPosition: [x, y]
    nextShiftTime,  \* this.nextShiftTime, in milliseconds
    patternType,    \* this.patternType
    rng,            \* state of Math.random()
    pc,             \* position inside generateMaze(), or "constructed" / "ready"
    generated,      \* generateMaze() has completed at least once on this instance
    generations,    \* number of generateMaze()/regenerateMaze() calls started
    firings,        \* number of shift firings
    lastStep,       \* name of the last step taken
    prevGrid,       \* mazeGrid before the last step
    prevShiftTime,  \* nextShiftTime before the last step
    lastDelta,      \* deltaTime of the last updateMaze() call
    returned,       \* return value of the last updateMaze() call
    wallsToShift,   \* the batch collected by the last shift firing
    batchGrid,      \* mazeGrid right after the last batch was applied, before re-validation
    startCell,      \* the probe cell of the last validator run (NoCell if none was found)
    foundPath,      \* the BFS result of the last validator run
    rooms,          \* RoomManager.rooms: room code -> room
    generators,     \* the MazeGenerator objects, by address
    grids,          \* the grid arrays, by address
    tick,           \* the room the game loop is at, between updateMaze() and setMaze()
    playerRooms,    \* RoomManager.playerRooms: player id -> room code ("" if none)
    noiseIndex,     \* the loop counter i of addRandomVariations(), when it is run by steps
    loop            \* the locals of the loop being run by steps: frontiers, queue, visited, x, y

serverVars == << rooms, generators, grids, tick, playerRooms >>

vars == << width, height, mazeGrid, exitPosition, nextShiftTime, patternType, rng, pc,
           generated, generations, firings, lastStep, prevGrid, prevShiftTime, lastDelta,
           returned, wallsToShift, batchGrid, startCell, foundPath, rooms, generators,
           grids, tick, playerRooms, noiseIndex, loop >>

(***************************************************************************)
(* Bounds of the model.                                                    *)
(***************************************************************************)
MazeWidth == 8          \* constructor argument width
MazeHeight == 8         \* constructor argument height
NumSeeds == 100         \* seeds of Math.random() that are explored
MaxGenerations == 2     \* generateMaze() + regenerateMaze() calls per instance
MaxFirings == 2         \* shift firings per instance
ProbeWidth == 3         \* grid width of the validator-only specification
ProbeHeight == 3        \* grid height of the validator-only specification
MaxDimension == 3       \* dimensions -MaxDimension..MaxDimension given to the constructor
MaxRoomFirings == 1     \* shift firings, over all rooms
RoomSeeds == 2          \* seeds of Math.random() explored per started game
MaxLoopFirings == 1     \* shift firings of the specification that runs the loops by steps
LoopSeeds == 40         \* seeds of Math.random() of that specification
MaxShiftFirings == 2    \* shift firings of the specification in which the timer keeps ticking

RoomCodes == {"A", "B"}

PlayerIds == {"p1", "p2", "p3"}     \* socket ids

DeltaTimes == {30000, 75000}    \* deltaTime arguments of updateMaze(), in ms

(***************************************************************************)
(* Program constants.                                                      *)
(***************************************************************************)
shiftInterval == 60     \* seconds between maze shifts
shiftChance == 20       \* percent: chance of a cell being drawn in a shift
gridSpacing == 3        \* spacing of the geometric pattern's corridors
numRadials == 8         \* radial paths of the concentric pattern
defaultMazeWidth == 20  \* options.mazeWidth || 20
defaultMazeHeight == 20 \* options.mazeHeight || 20

directions == << [x |-> 0, y |-> 1], [x |-> 1, y |-> 0], [x |-> 0, y |-> -1], [x |-> -1, y |-> 0] >>

NoCell == [x |-> -1, y |-> -1]

\* no loop is being run by steps
NoLoop == [frontiers |-> << >>, queue |-> << >>, visited |-> {}, pushes |-> 0, x |-> 0, y |-> 0]

\* rooms.has(code) is false
NoRoom == [state |-> "absent", players |-> 0, mazeGenerator |-> 0, maze |-> << >>,
           handed |-> << >>]

\* the game loop is between two rooms
NoTick == [room |-> "", mazeUpdated |-> FALSE]

\* new RoomManager(): no room, and no generator or grid allocated
NoServer ==
    /\ rooms = [code \in RoomCodes |-> NoRoom]
    /\ generators = << >>
    /\ grids = << >>
    /\ tick = NoTick
    /\ playerRooms = [id \in PlayerIds |-> ""]

(***************************************************************************)
(* Math.random().                                                          *)
(***************************************************************************)
\* The generator's next state; the value drawn is state / 65536, in [0, 1).
NextRandom(r) == (r * 25173 + 13849) % 65536

\* Math.floor(Math.random() * num / den) for the drawn state r.
RandFloor(r, num, den) == (r * num) \div (65536 * den)

\* Math.random() < pct / 100 for the drawn state r.
RandBelow(r, pct) == r * 100 < pct * 65536

(***************************************************************************)
(* Grid helpers.                                                           *)
(***************************************************************************)
Min(a, b) == IF a < b THEN a ELSE b

isInBounds(x, y) == x >= 0 /\ x < width /\ y >= 0 /\ y < height

Cells == {[x |-> cx, y |-> cy] : cx \in 0..(width - 1), cy \in 0..(height - 1)}

AllWalls == [x \in 0..(width - 1) |-> [y \in 0..(height - 1) |-> TRUE]]

IsPath(g, x, y) == isInBounds(x, y) /\ ~g[x][y]

\* mazeGrid[x][y] = v: an index y >= height makes the column array longer, as an
\* assignment past the end of a JavaScript array does
SetCell(g, x, y, v) ==
    IF y >= height /\ y \notin DOMAIN g[x]
    THEN [g EXCEPT ![x] = [k \in (DOMAIN g[x]) \cup {y} |-> IF k = y THEN v ELSE g[x][k]]]
    ELSE [g EXCEPT ![x][y] = v]

\* mazeGrid[x][y] = false
Carve(g, x, y) == SetCell(g, x, y, FALSE)

\* mazeGrid[x][y] = true
Block(g, x, y) == SetCell(g, x, y, TRUE)

\* every in-bounds cell of the set S (of <<x, y>>) set to path
CarveAll(g, S) ==
    [x \in 0..(width - 1) |-> [y \in 0..(height - 1) |-> g[x][y] /\ <<x, y>> \notin S]]

\* the count of open orthogonal neighbours (the adjacentPaths loops)
adjacentPaths(g, x, y) ==
    Cardinality({d \in 1..4 : IsPath(g, x + directions[d].x, y + directions[d].y)})

\* dx*dx + dy*dy to the exit; Math.sqrt(...) < n is compared as ... < n*n
DistSq(x, y, e) == (x - e.x) * (x - e.x) + (y - e.y) * (y - e.y)


(***************************************************************************)
(* generateGeometricPattern()                                              *)
(***************************************************************************)
\* the full-width horizontal and full-height vertical corridors
GeometricCorridors ==
    {<<x, y>> \in (0..(width - 1)) \X (0..(height - 1)) :
        \/ (y >= gridSpacing /\ y % gridSpacing = 0)
        \/ (x >= gridSpacing /\ x % gridSpacing = 0)}

\* the diagonal connections: for (i = 0; i < width / 3; i++)
GeometricDiagonals ==
    UNION {LET sx == gridSpacing + ((i * gridSpacing * 2) % width)
               sy == gridSpacing + ((i * gridSpacing) % height)
           IN  IF sx < width - gridSpacing /\ sy < height - gridSpacing
               THEN {<<sx + j, sy + j>> : j \in 0..(gridSpacing - 1)}
               ELSE {} : i \in {k \in 0..width : 3 * k < width}}

\* the zigzag patterns: for (i = 0; i < width / 4; i++)
GeometricZigzags ==
    UNION {LET sx == gridSpacing * 2 + ((i * gridSpacing * 3) % width)
               sy == gridSpacing * 2 + ((i * gridSpacing * 2) % height)
           IN  IF sx < width - gridSpacing * 2 /\ sy < height - gridSpacing * 2
               THEN UNION {{<<sx + j, sy>>, <<sx + gridSpacing, sy + j>>,
                            <<sx + gridSpacing - j, sy + gridSpacing>>} :
                           j \in 0..(gridSpacing - 1)}
               ELSE {} : i \in {k \in 0..width : 4 * k < width}}

\* the arms of one junction at (x, y) of type t
JunctionArms(x, y, t) ==
    {<<x, y>>}
    \cup (IF t = 0 \/ t = 3 THEN {<<x, y + i>> : i \in 1..gridSpacing} ELSE {})
    \cup (IF t = 1 \/ t = 3 THEN {<<x + i, y>> : i \in 1..gridSpacing} ELSE {})
    \cup (IF t = 2 \/ t = 3 THEN {<<x, y - i>> : i \in 1..gridSpacing} ELSE {})
    \cup (IF t = 0 \/ t = 2 THEN {<<x - i, y>> : i \in 1..gridSpacing} ELSE {})

\* the junction loops: y and x from gridSpacing in steps of 2 * gridSpacing, y outer
RECURSIVE GeometricJunctions(_, _, _, _)
GeometricJunctions(g, r, x, y) ==
    IF y >= height THEN [g |-> g, r |-> r]
    ELSE IF x >= width THEN GeometricJunctions(g, r, gridSpacing, y + gridSpacing * 2)
    ELSE LET r1 == NextRandom(r)
             junctionType == RandFloor(r1, 4, 1)
         IN  GeometricJunctions(CarveAll(g, JunctionArms(x, y, junctionType)), r1,
                                x + gridSpacing * 2, y)

generateGeometricPattern(r) ==
    GeometricJunctions(
        CarveAll(AllWalls, GeometricCorridors \cup GeometricDiagonals \cup GeometricZigzags),
        r, gridSpacing, gridSpacing)

(***************************************************************************)
(* generateConcentricPattern()                                             *)
(***************************************************************************)
\* createRing() for radius 2: the cells (Math.round(2 cos a), Math.round(2 sin a))
\* sampled at a = 0, 0.1, 0.2, ... < 2 pi, relative to the centre
RingOffsets ==
    {<<-2, -1>>, <<-2, 0>>, <<-2, 1>>, <<-1, -2>>, <<-1, -1>>, <<-1, 1>>, <<-1, 2>>,
     <<0, -2>>, <<0, 2>>, <<1, -2>>, <<1, -1>>, <<1, 1>>, <<1, 2>>,
     <<2, -1>>, <<2, 0>>, <<2, 1>>}

\* Math.round(r * cos(pi / 4)), cos(pi / 4) = 0.7071...
RoundDiagonal(r) == (r * 7071 + 5000) \div 10000

\* (Math.round(r cos a), Math.round(r sin a)) for a = i * 2 pi / numRadials
RadialOffset(i, r) ==
    LET d == RoundDiagonal(r)
    IN  CASE i = 0 -> <<r, 0>>
          [] i = 1 -> <<d, d>>
          [] i = 2 -> <<0, r>>
          [] i = 3 -> <<-d, d>>
          [] i = 4 -> <<-r, 0>>
          [] i = 5 -> <<-d, -d>>
          [] i = 6 -> <<0, -r>>
          [] OTHER -> <<d, -d>>

\* rings at radius 2, 5, 8, ... <= maxRadius and numRadials radial paths.  The
\* ring-to-ring connections (radius 3, 6, ... < maxRadius) are empty for
\* maxRadius <= 3, that is for every grid smaller than 10 x 10, and so is every
\* ring but the first.
generateConcentricPattern(r) ==
    LET centerX == width \div 2
        centerY == height \div 2
        maxRadius == Min(centerX, centerY) - 1
        ring == IF 2 <= maxRadius
                THEN {<<centerX + o[1], centerY + o[2]>> : o \in RingOffsets}
                ELSE {}
        radials == {<<centerX + RadialOffset(i, rad)[1], centerY + RadialOffset(i, rad)[2]>> :
                    i \in 0..(numRadials - 1), rad \in 0..maxRadius}
    IN  [g |-> CarveAll(AllWalls, ring \cup radials), r |-> r]

(***************************************************************************)
(* generateSymmetricPattern()                                              *)
(***************************************************************************)
\* the quadrant rule with its three mirror images
SymmetricQuadrants ==
    UNION {{<<x, y>>, <<width - 1 - x, y>>, <<x, height - 1 - y>>,
            <<width - 1 - x, height - 1 - y>>} :
           <<x, y>> \in {q \in (0..((width \div 2) - 1)) \X (0..((height \div 2) - 1)) :
                            \/ (q[1] % 3 = 0 /\ q[2] % 2 = 0)
                            \/ (q[1] % 4 = 0 /\ q[2] % 3 = 0)
                            \/ q[1] = q[2]
                            \/ q[1] = q[2] + 2}}

\* the 10 connecting paths: x, y and the orientation are drawn for each
RECURSIVE SymmetricConnections(_, _, _)
SymmetricConnections(g, r, i) ==
    IF i >= 10 THEN [g |-> g, r |-> r]
    ELSE LET r1 == NextRandom(r)
             r2 == NextRandom(r1)
             r3 == NextRandom(r2)
             x == RandFloor(r1, width, 2)
             y == RandFloor(r2, height, 2)
             line == IF RandBelow(r3, 50)
                     THEN {<<j, y>> : j \in 0..(width - 1)}
                     ELSE {<<x, j>> : j \in 0..(height - 1)}
         IN  SymmetricConnections(CarveAll(g, line), r3, i + 1)

generateSymmetricPattern(r) ==
    SymmetricConnections(CarveAll(AllWalls, SymmetricQuadrants), r, 0)

(***************************************************************************)
(* runPrimsAlgorithm() is the default branch of generateMaze()'s switch.   *)
(* patternType is Math.floor(Math.random() * 3), so the switch takes one   *)
(* of its three cases.                                                     *)
(***************************************************************************)
\* addFrontiers(cell): the walls two cells away that are not in the list yet
\* addFrontiers(cell) without the test that the frontier is not already in the list
RECURSIVE addFrontiersTwice(_, _, _, _)
addFrontiersTwice(g, frontiers, cell, d) ==
    IF d > 4 THEN frontiers
    ELSE LET frontier == [x |-> cell.x + directions[d].x * 2, y |-> cell.y + directions[d].y * 2]
             isNew == /\ isInBounds(frontier.x, frontier.y)
                      /\ g[frontier.x][frontier.y]
         IN  addFrontiersTwice(g, IF isNew THEN Append(frontiers, frontier) ELSE frontiers,
                               cell, d + 1)

RECURSIVE addFrontiers(_, _, _, _)
addFrontiers(g, frontiers, cell, d) ==
    IF d > 4 THEN frontiers
    ELSE LET frontier == [x |-> cell.x + directions[d].x * 2, y |-> cell.y + directions[d].y * 2]
             isNew == /\ isInBounds(frontier.x, frontier.y)
                      /\ g[frontier.x][frontier.y]
                      /\ ~\E k \in 1..Len(frontiers) : frontiers[k] = frontier
         IN  addFrontiers(g, IF isNew THEN Append(frontiers, frontier) ELSE frontiers, cell, d + 1)

\* getNeighborsInMaze(cell): the path cells two cells away, in the order of directions
getNeighborsInMaze(g, cell) ==
    SelectSeq([d \in 1..4 |-> [x |-> cell.x + directions[d].x * 2,
                               y |-> cell.y + directions[d].y * 2]],
              LAMBDA n : IsPath(g, n.x, n.y))

\* one iteration of the while loop of runPrimsAlgorithm()
primIteration(g, r, frontiers) ==
    LET r1 == NextRandom(r)
        r2 == NextRandom(r1)
        randomIndex == RandFloor(r1, Len(frontiers), 1) + 1
        currentCell == frontiers[randomIndex]
        rest == [k \in 1..(Len(frontiers) - 1) |->
                    IF k < randomIndex THEN frontiers[k] ELSE frontiers[k + 1]]
        neighbors == getNeighborsInMaze(g, currentCell)
        neighbor == neighbors[RandFloor(r2, Len(neighbors), 1) + 1]
        connected == Carve(Carve(g, currentCell.x, currentCell.y),
                           (currentCell.x + neighbor.x) \div 2,
                           (currentCell.y + neighbor.y) \div 2)
    IN  IF Len(neighbors) > 0
        THEN [g |-> connected, r |-> r2,
              frontiers |-> addFrontiers(connected, rest, currentCell, 1)]
        ELSE [g |-> g, r |-> r1, frontiers |-> rest]

\* the while loop of runPrimsAlgorithm()
RECURSIVE PrimLoop(_, _, _)
PrimLoop(g, r, frontiers) ==
    IF Len(frontiers) = 0 THEN [g |-> g, r |-> r]
    ELSE LET made == primIteration(g, r, frontiers)
         IN  PrimLoop(made.g, made.r, made.frontiers)

runPrimsAlgorithm(r) ==
    LET r1 == NextRandom(r)
        r2 == NextRandom(r1)
        startCell0 == [x |-> RandFloor(r1, width, 1), y |-> RandFloor(r2, height, 1)]
        started == Carve(AllWalls, startCell0.x, startCell0.y)
        made == PrimLoop(started, r2, addFrontiers(started, << >>, startCell0, 1))
    IN  [g |-> made.g, r |-> made.r, start |-> startCell0]

\* this.usePatternedGeneration = true
usePatternedGeneration == TRUE

\* a draw of the pattern type among four values
drawPatternTypeOfFour(r) == RandFloor(r, 4, 1)

\* this.patternType = Math.floor(Math.random() * 3)
drawPatternType(r) == RandFloor(r, 3, 1)

\* the strategy the switch of generateMaze() selects
selectedStrategy(p) ==
    IF usePatternedGeneration
    THEN CASE p = 0 -> "geometric"
           [] p = 1 -> "concentric"
           [] p = 2 -> "symmetric"
           [] OTHER -> "prim"
    ELSE "prim"

GeneratePattern(p, r) ==
    CASE selectedStrategy(p) = "geometric" -> generateGeometricPattern(r)
      [] selectedStrategy(p) = "concentric" -> generateConcentricPattern(r)
      [] selectedStrategy(p) = "symmetric" -> generateSymmetricPattern(r)
      [] OTHER -> runPrimsAlgorithm(r)

(***************************************************************************)
(* createExit(): the exit on a random edge, the exit cell and the cell     *)
(* next to it cleared.                                                     *)
(***************************************************************************)
\* createExit() with the top edge taken as the row top
createExitTopRow(top, g, r) ==
    LET r1 == NextRandom(r)
        r2 == NextRandom(r1)
        side == RandFloor(r1, 4, 1)
        e == CASE side = 0 -> [x |-> RandFloor(r2, width, 1), y |-> top]
               [] side = 1 -> [x |-> width - 1, y |-> RandFloor(r2, height, 1)]
               [] side = 2 -> [x |-> RandFloor(r2, width, 1), y |-> 0]
               [] OTHER    -> [x |-> 0, y |-> RandFloor(r2, height, 1)]
        pathCell == IF e.x = 0 THEN [x |-> e.x + 1, y |-> e.y]
                    ELSE IF e.x = width - 1 THEN [x |-> e.x - 1, y |-> e.y]
                    ELSE IF e.y = 0 THEN [x |-> e.x, y |-> e.y + 1]
                    ELSE [x |-> e.x, y |-> e.y - 1]
    IN  [g |-> Carve(Carve(g, e.x, e.y), pathCell.x, pathCell.y), r |-> r2, e |-> e]

\* the top edge taken as y = height, one row past the grid
createExitPastTopEdge(g, r) == createExitTopRow(height, g, r)

\* the top edge taken as y = height - 2, one row inside the grid
createExitInsideTopEdge(g, r) == createExitTopRow(height - 2, g, r)

createExit(g, r) ==
    LET r1 == NextRandom(r)
        r2 == NextRandom(r1)
        side == RandFloor(r1, 4, 1)
        e == CASE side = 0 -> [x |-> RandFloor(r2, width, 1), y |-> height - 1]
               [] side = 1 -> [x |-> width - 1, y |-> RandFloor(r2, height, 1)]
               [] side = 2 -> [x |-> RandFloor(r2, width, 1), y |-> 0]
               [] OTHER    -> [x |-> 0, y |-> RandFloor(r2, height, 1)]
        pathCell == IF e.x = 0 THEN [x |-> e.x + 1, y |-> e.y]
                    ELSE IF e.x = width - 1 THEN [x |-> e.x - 1, y |-> e.y]
                    ELSE IF e.y = 0 THEN [x |-> e.x, y |-> e.y + 1]
                    ELSE IF e.y = height - 1 THEN [x |-> e.x, y |-> e.y - 1]
                    ELSE e
    IN  [g |-> Carve(Carve(g, e.x, e.y), pathCell.x, pathCell.y), r |-> r2, e |-> e]

(***************************************************************************)
(* createChambers()                                                        *)
(***************************************************************************)
\* the pillars of one chamber: pillarX, pillarY drawn for each
RECURSIVE ChamberPillars(_, _, _, _, _, _)
ChamberPillars(g, r, centerX, centerY, p, pillarCount) ==
    IF p >= pillarCount THEN [g |-> g, r |-> r]
    ELSE LET r1 == NextRandom(r)
             r2 == NextRandom(r1)
             pillarX == centerX - 1 + RandFloor(r1, 3, 1)
             pillarY == centerY - 1 + RandFloor(r2, 3, 1)
         IN  ChamberPillars(IF isInBounds(pillarX, pillarY) THEN Block(g, pillarX, pillarY)
                                                            ELSE g,
                            r2, centerX, centerY, p + 1, pillarCount)

\* one chamber: centre and size drawn, skipped when the centre is nearer than 5
\* to the exit
RECURSIVE ChamberLoop(_, _, _, _, _)
ChamberLoop(g, r, e, i, chamberCount) ==
    IF i >= chamberCount THEN [g |-> g, r |-> r]
    ELSE LET r1 == NextRandom(r)
             r2 == NextRandom(r1)
             r3 == NextRandom(r2)
             r4 == NextRandom(r3)
             centerX == 2 + RandFloor(r1, width - 4, 1)
             centerY == 2 + RandFloor(r2, height - 4, 1)
             chamberWidth == 3 + RandFloor(r3, 3, 1)
             chamberHeight == 3 + RandFloor(r4, 3, 1)
             room == ((centerX - (chamberWidth \div 2))..(centerX + (chamberWidth \div 2)))
                     \X ((centerY - (chamberHeight \div 2))..(centerY + (chamberHeight \div 2)))
             cleared == CarveAll(g, room)
             r5 == NextRandom(r4)
             pillarCount == 1 + RandFloor(r5, 2, 1)
             done == IF chamberWidth >= 4 /\ chamberHeight >= 4
                     THEN ChamberPillars(cleared, r5, centerX, centerY, 0, pillarCount)
                     ELSE [g |-> cleared, r |-> r4]
         IN  IF DistSq(centerX, centerY, e) < 25
             THEN ChamberLoop(g, r4, e, i + 1, chamberCount)
             ELSE ChamberLoop(done.g, done.r, e, i + 1, chamberCount)

createChambers(g, r, e) ==
    LET r1 == NextRandom(r)
        chamberCount == 2 + RandFloor(r1, 3, 1)
    IN  ChamberLoop(g, r1, e, 0, chamberCount)

(***************************************************************************)
(* addArchitecturalFeatures()                                              *)
(***************************************************************************)
\* standalone pillars: a path cell with at least 3 open neighbours becomes a wall
RECURSIVE StandalonePillars(_, _, _, _)
StandalonePillars(g, r, i, pillarCount) ==
    IF i >= pillarCount THEN [g |-> g, r |-> r]
    ELSE LET r1 == NextRandom(r)
             r2 == NextRandom(r1)
             x == 1 + RandFloor(r1, width - 2, 1)
             y == 1 + RandFloor(r2, height - 2, 1)
         IN  StandalonePillars(IF ~g[x][y] /\ adjacentPaths(g, x, y) >= 3
                               THEN Block(g, x, y) ELSE g,
                               r2, i + 1, pillarCount)

\* archways: two pillars with a path between; no bounds or exit test in the source
RECURSIVE Archways(_, _, _, _)
Archways(g, r, i, archCount) ==
    IF i >= archCount THEN [g |-> g, r |-> r]
    ELSE LET r1 == NextRandom(r)
             r2 == NextRandom(r1)
             r3 == NextRandom(r2)
             x == 2 + RandFloor(r1, width - 4, 1)
             y == 2 + RandFloor(r2, height - 4, 1)
             dirIndex == RandFloor(r3, 2, 1)
             arch == IF dirIndex = 0
                     THEN IF ~g[x][y] /\ ~g[x + 2][y]
                          THEN Carve(Block(Block(g, x, y), x + 2, y), x + 1, y)
                          ELSE g
                     ELSE IF ~g[x][y] /\ ~g[x][y + 2]
                          THEN Carve(Block(Block(g, x, y), x, y + 2), x, y + 1)
                          ELSE g
         IN  Archways(arch, r3, i + 1, archCount)

addArchitecturalFeatures(g, r) ==
    LET pillars == StandalonePillars(g, r, 0, (width * height) \div 40)
    IN  Archways(pillars.g, pillars.r, 0, (width * height) \div 60)

(***************************************************************************)
(* createWiderCorridors()                                                  *)
(***************************************************************************)
\* isInBounds(c) && Math.random() < 0.7: the draw is made only for an in-bounds cell
WidenSide(st, x, y) ==
    IF isInBounds(x, y)
    THEN LET r1 == NextRandom(st.r)
         IN  [g |-> IF RandBelow(r1, 70) THEN Carve(st.g, x, y) ELSE st.g, r |-> r1]
    ELSE st

\* the cells of one corridor, j = 0 .. length - 1
RECURSIVE CorridorCells(_, _, _, _, _, _, _)
CorridorCells(g, r, startX, startY, dir, j, length) ==
    IF j >= length THEN [g |-> g, r |-> r]
    ELSE LET x == startX + dir.x * j
             y == startY + dir.y * j
             cleared == [g |-> Carve(g, x, y), r |-> r]
             widened == IF dir.x = 0
                        THEN WidenSide(WidenSide(cleared, x + 1, y), x - 1, y)
                        ELSE WidenSide(WidenSide(cleared, x, y + 1), x, y - 1)
         IN  IF isInBounds(x, y)
             THEN CorridorCells(widened.g, widened.r, startX, startY, dir, j + 1, length)
             ELSE CorridorCells(g, r, startX, startY, dir, j + 1, length)

RECURSIVE CorridorLoop(_, _, _, _)
CorridorLoop(g, r, i, corridorCount) ==
    IF i >= corridorCount THEN [g |-> g, r |-> r]
    ELSE LET r1 == NextRandom(r)
             r2 == NextRandom(r1)
             r3 == NextRandom(r2)
             r4 == NextRandom(r3)
             startX == 1 + RandFloor(r1, width - 2, 1)
             startY == 1 + RandFloor(r2, height - 2, 1)
             dir == directions[1 + RandFloor(r3, 4, 1)]
             length == 2 + RandFloor(r4, 4, 1)
             done == CorridorCells(g, r4, startX, startY, dir, 0, length)
         IN  IF ~g[startX][startY]
             THEN CorridorLoop(done.g, done.r, i + 1, corridorCount)
             ELSE CorridorLoop(g, r2, i + 1, corridorCount)

createWiderCorridors(g, r) == CorridorLoop(g, r, 0, (width * height) \div 30)

(***************************************************************************)
(* addRandomVariations()                                                   *)
(***************************************************************************)
\* the count of open neighbours of (nx, ny) other than (x, y)
neighborPaths(g, nx, ny, x, y) ==
    Cardinality({d \in 1..4 :
        /\ IsPath(g, nx + directions[d].x, ny + directions[d].y)
        /\ ~(nx + directions[d].x = x /\ ny + directions[d].y = y)})

\* the flag the source calls createDeadEnd: it stays true when no open neighbour
\* of (x, y) is left with at most one other open neighbour
createDeadEnd(g, x, y) ==
    \A d \in 1..4 :
        IsPath(g, x + directions[d].x, y + directions[d].y)
            => neighborPaths(g, x + directions[d].x, y + directions[d].y, x, y) > 1

\* an iteration that walls a path cell of a corridor (at most 2 open neighbours)
\* without looking at the cell's neighbours
variationIterationUnchecked(g, r, e) ==
    LET r1 == NextRandom(r)
        r2 == NextRandom(r1)
        r3 == NextRandom(r2)
        x == RandFloor(r1, width - 2, 1) + 1
        y == RandFloor(r2, height - 2, 1) + 1
        paths == adjacentPaths(g, x, y)
    IN  IF DistSq(x, y, e) < 9 THEN [g |-> g, r |-> r2]
        ELSE IF g[x][y] /\ paths >= 3 THEN [g |-> Carve(g, x, y), r |-> r2]
        ELSE IF ~g[x][y] /\ paths <= 2
        THEN [g |-> IF RandBelow(r3, 30) THEN Block(g, x, y) ELSE g, r |-> r3]
        ELSE [g |-> g, r |-> r2]

\* one iteration of the loop of addRandomVariations()
variationIteration(g, r, e) ==
    LET r1 == NextRandom(r)
        r2 == NextRandom(r1)
        r3 == NextRandom(r2)
        x == RandFloor(r1, width - 2, 1) + 1
        y == RandFloor(r2, height - 2, 1) + 1
        paths == adjacentPaths(g, x, y)
    IN  IF DistSq(x, y, e) < 9 THEN [g |-> g, r |-> r2]
        ELSE IF g[x][y] /\ paths >= 3 THEN [g |-> Carve(g, x, y), r |-> r2]
        ELSE IF ~g[x][y] /\ paths <= 1 /\ createDeadEnd(g, x, y)
        THEN [g |-> IF RandBelow(r3, 30) THEN Block(g, x, y) ELSE g, r |-> r3]
        ELSE [g |-> g, r |-> r2]

RECURSIVE VariationLoop(_, _, _, _, _)
VariationLoop(g, r, e, i, count) ==
    IF i >= count THEN [g |-> g, r |-> r]
    ELSE LET made == variationIteration(g, r, e)
         IN  VariationLoop(made.g, made.r, e, i + 1, count)

\* Math.floor(this.width * this.height / 10)
variationCount == (width * height) \div 10

addRandomVariations(g, r, e) == VariationLoop(g, r, e, 0, variationCount)

(***************************************************************************)
(* ensureMazeIsSolvable() and createPathToExit()                           *)
(***************************************************************************)
\* the first path cell of the scan, the exit not left out
findStartCellAnyPath(g, e) ==
    LET columns == {x \in 0..(width - 1) : \E y \in 0..(height - 1) : ~g[x][y]}
        firstX == CHOOSE x \in columns : \A x2 \in columns : x <= x2
        rows == {y \in 0..(height - 1) : ~g[firstX][y]}
        firstY == CHOOSE y \in rows : \A y2 \in rows : y <= y2
    IN  IF columns = {} THEN NoCell ELSE [x |-> firstX, y |-> firstY]

\* the first path cell of the scan x = 0..width-1 (outer), y = 0..height-1 (inner)
\* that is not the exit, NoCell if there is none
findStartCell(g, e) ==
    LET Candidate(x, y) == ~g[x][y] /\ (x # e.x \/ y # e.y)
        columns == {x \in 0..(width - 1) : \E y \in 0..(height - 1) : Candidate(x, y)}
        firstX == CHOOSE x \in columns : \A x2 \in columns : x <= x2
        rows == {y \in 0..(height - 1) : Candidate(firstX, y)}
        firstY == CHOOSE y \in rows : \A y2 \in rows : y <= y2
    IN  IF columns = {} THEN NoCell ELSE [x |-> firstX, y |-> firstY]

\* the open, unvisited orthogonal neighbours of the cells of a wave
Pushed(g, wave, visited) ==
    {n \in UNION {{[x |-> c.x + directions[d].x, y |-> c.y + directions[d].y] : d \in 1..4} :
                  c \in wave} :
        IsPath(g, n.x, n.y) /\ n \notin visited}

\* the breadth-first search: TRUE when the exit is dequeued.  The queue is taken a
\* wave at a time: the cells at the same distance from the start, which the source
\* dequeues one after the other before any cell they push.
RECURSIVE breadthFirstSearch(_, _, _, _)
breadthFirstSearch(g, e, wave, visited) ==
    IF wave = {} THEN FALSE
    ELSE IF e \in wave THEN TRUE
    ELSE LET pushed == Pushed(g, wave, visited)
         IN  breadthFirstSearch(g, e, pushed, visited \cup pushed)

pathFound(g, e, start) == breadthFirstSearch(g, e, {start}, {start})

\* while (x !== exitPosition.x) { x += stepX; mazeGrid[x][startCell.y] = false }
RECURSIVE carveHorizontal(_, _, _, _, _)
carveHorizontal(g, x, stepX, row, e) ==
    IF x = e.x THEN g
    ELSE carveHorizontal(Carve(g, x + stepX, row), x + stepX, stepX, row, e)

\* while (y !== exitPosition.y) { y += stepY; mazeGrid[exitPosition.x][y] = false }
RECURSIVE carveVertical(_, _, _, _)
carveVertical(g, y, stepY, e) ==
    IF y = e.y THEN g
    ELSE carveVertical(Carve(g, e.x, y + stepY), y + stepY, stepY, e)

\* a repair that carves the horizontal leg only
createPathToExitHorizontalOnly(g, e, start) ==
    carveHorizontal(g, start.x, IF e.x - start.x > 0 THEN 1 ELSE -1, start.y, e)

\* the vertical leg in the start cell's column
RECURSIVE carveStartColumn(_, _, _, _, _)
carveStartColumn(g, y, stepY, column, e) ==
    IF y = e.y THEN g
    ELSE carveStartColumn(Carve(g, column, y + stepY), y + stepY, stepY, column, e)

\* a repair that moves vertically first, then horizontally along the exit's row
createPathToExitVerticalFirst(g, e, start) ==
    LET stepX == IF e.x - start.x > 0 THEN 1 ELSE -1
        stepY == IF e.y - start.y > 0 THEN 1 ELSE -1
    IN  carveHorizontal(carveStartColumn(g, start.y, stepY, start.x, e), start.x, stepX, e.y, e)

createPathToExit(g, e, start) ==
    LET dx == e.x - start.x
        dy == e.y - start.y
        stepX == IF dx > 0 THEN 1 ELSE -1
        stepY == IF dy > 0 THEN 1 ELSE -1
    IN  carveVertical(carveHorizontal(g, start.x, stepX, start.y, e), start.y, stepY, e)

\* a validator that searches and never repairs
ensureMazeIsSolvableNoRepair(g, e) == g

\* a validator that carves the corridor without looking at the search result
ensureMazeIsSolvableAlwaysCarve(g, e) ==
    IF findStartCell(g, e) = NoCell THEN g
    ELSE createPathToExit(g, e, findStartCell(g, e))

\* a validator that falls back on the cell (0, 0) when the scan finds no start cell
ensureMazeIsSolvableDefaultStart(g, e) ==
    LET found == findStartCell(g, e)
        start == IF found = NoCell THEN [x |-> 0, y |-> 0] ELSE found
    IN  IF found # NoCell /\ pathFound(g, e, start) THEN g
        ELSE createPathToExit(g, e, start)

ensureMazeIsSolvable(g, e) ==
    LET start == findStartCell(g, e)
    IN  IF start = NoCell THEN g
        ELSE IF pathFound(g, e, start) THEN g
        ELSE createPathToExit(g, e, start)

(***************************************************************************)
(* shiftMazeWalls()                                                        *)
(***************************************************************************)
\* a scan whose exclusion zone is distance < zone (zoneSq = zone * zone)
RECURSIVE collectColumnZone(_, _, _, _, _, _, _)
collectColumnZone(zoneSq, g, r, e, x, y, batch) ==
    IF y >= height - 1 THEN [batch |-> batch, r |-> r]
    ELSE IF DistSq(x, y, e) < zoneSq THEN collectColumnZone(zoneSq, g, r, e, x, y + 1, batch)
    ELSE LET r1 == NextRandom(r)
             paths == adjacentPaths(g, x, y)
         IN  IF ~RandBelow(r1, shiftChance)
             THEN collectColumnZone(zoneSq, g, r1, e, x, y + 1, batch)
             ELSE IF g[x][y] /\ paths <= 2
             THEN collectColumnZone(zoneSq, g, r1, e, x, y + 1,
                                    Append(batch, [x |-> x, y |-> y, toWall |-> FALSE]))
             ELSE IF ~g[x][y] /\ paths >= 3
             THEN collectColumnZone(zoneSq, g, r1, e, x, y + 1,
                                    Append(batch, [x |-> x, y |-> y, toWall |-> TRUE]))
             ELSE collectColumnZone(zoneSq, g, r1, e, x, y + 1, batch)

\* a scan that skips no cell near the exit
collectColumnNoSkip(g, r, e, x, y, batch) == collectColumnZone(0, g, r, e, x, y, batch)

\* a scan that skips only the cells nearer than 2 to the exit
collectColumnNearSkip(g, r, e, x, y, batch) == collectColumnZone(4, g, r, e, x, y, batch)

\* the inner loop of the scan that collects wallsToShift: y = 1..height-2 for one x;
\* a cell nearer than 3 to the exit is skipped before any draw
RECURSIVE collectColumn(_, _, _, _, _, _)
collectColumn(g, r, e, x, y, batch) ==
    IF y >= height - 1 THEN [batch |-> batch, r |-> r]
    ELSE IF DistSq(x, y, e) < 9 THEN collectColumn(g, r, e, x, y + 1, batch)
    ELSE LET r1 == NextRandom(r)
             paths == adjacentPaths(g, x, y)
         IN  IF ~RandBelow(r1, shiftChance) THEN collectColumn(g, r1, e, x, y + 1, batch)
             ELSE IF g[x][y] /\ paths <= 2
             THEN collectColumn(g, r1, e, x, y + 1,
                                Append(batch, [x |-> x, y |-> y, toWall |-> FALSE]))
             ELSE IF ~g[x][y] /\ paths >= 3
             THEN collectColumn(g, r1, e, x, y + 1,
                                Append(batch, [x |-> x, y |-> y, toWall |-> TRUE]))
             ELSE collectColumn(g, r1, e, x, y + 1, batch)

\* wallsToShift.forEach(wall => mazeGrid[wall.x][wall.y] = wall.toWall)
RECURSIVE applyShifts(_, _, _)
applyShifts(g, batch, k) ==
    IF k > Len(batch) THEN g
    ELSE applyShifts([g EXCEPT ![batch[k].x][batch[k].y] = batch[k].toWall], batch, k + 1)

\* a scan that applies what it has collected before it goes on to the next column
RECURSIVE collectShiftsInterleaved(_, _, _, _, _)
collectShiftsInterleaved(g, r, e, x, batch) ==
    IF x >= width - 1 THEN [batch |-> batch, r |-> r]
    ELSE LET column == collectColumn(applyShifts(g, batch, 1), r, e, x, 1, batch)
         IN  collectShiftsInterleaved(g, column.r, e, x + 1, column.batch)

\* the outer loop of the scan: x = 1..width-2
RECURSIVE collectShifts(_, _, _, _, _)
collectShifts(g, r, e, x, batch) ==
    IF x >= width - 1 THEN [batch |-> batch, r |-> r]
    ELSE LET column == collectColumn(g, r, e, x, 1, batch)
         IN  collectShifts(g, column.r, e, x + 1, column.batch)

shiftMazeWalls(g, r, e) ==
    LET scan == collectShifts(g, r, e, 1, << >>)
        shifted == applyShifts(g, scan.batch, 1)
    IN  [g |-> ensureMazeIsSolvable(shifted, e), r |-> scan.r,
         batch |-> scan.batch, shifted |-> shifted]

(***************************************************************************)
(* The MazeGenerator instance: constructor, generateMaze() (one step per   *)
(* call it makes, in the order of the source), updateMaze().               *)
(***************************************************************************)
\* constructor(width, height, cellSize); patternType takes the first draw
Init ==
    /\ NoServer
    /\ noiseIndex = 0
    /\ loop = NoLoop
    /\ width = MazeWidth
    /\ height = MazeHeight
    /\ mazeGrid = AllWalls
    /\ exitPosition = [x |-> 0, y |-> 0]
    /\ nextShiftTime = 0
    /\ \E seed \in 0..(NumSeeds - 1) :
          /\ rng = NextRandom(seed)
          /\ patternType = drawPatternType(NextRandom(seed))
    /\ pc = "constructed"
    /\ generated = FALSE
    /\ generations = 0
    /\ firings = 0
    /\ lastStep = "constructor"
    /\ prevGrid = AllWalls
    /\ prevShiftTime = 0
    /\ lastDelta = 0
    /\ returned = FALSE
    /\ wallsToShift = << >>
    /\ batchGrid = AllWalls
    /\ startCell = NoCell
    /\ foundPath = FALSE

\* what every step of generateMaze() leaves alone
GenerateFrame ==
    /\ prevGrid' = mazeGrid
    /\ prevShiftTime' = nextShiftTime
    /\ UNCHANGED << width, height, patternType, generated, firings, lastDelta, returned,
                    wallsToShift, batchGrid >>
    /\ UNCHANGED << serverVars, noiseIndex, loop >>

\* generateMaze() / regenerateMaze(): initializeMaze() and the pattern the switch selects
GenerateMaze ==
    /\ pc \in {"constructed", "ready"}
    /\ generations < MaxGenerations
    /\ LET base == GeneratePattern(patternType, rng)
       IN  /\ mazeGrid' = base.g
           /\ rng' = base.r
    /\ nextShiftTime' = shiftInterval * 1000
    /\ generations' = generations + 1
    /\ pc' = "pattern"
    /\ lastStep' = "pattern"
    /\ GenerateFrame
    /\ UNCHANGED << exitPosition, startCell, foundPath >>

CreateExit ==
    /\ pc = "pattern"
    /\ LET made == createExit(mazeGrid, rng)
       IN  /\ mazeGrid' = made.g
           /\ rng' = made.r
           /\ exitPosition' = made.e
    /\ pc' = "exit"
    /\ lastStep' = "createExit"
    /\ GenerateFrame
    /\ UNCHANGED << nextShiftTime, generations, startCell, foundPath >>

CreateChambers ==
    /\ pc = "exit"
    /\ LET made == createChambers(mazeGrid, rng, exitPosition)
       IN  /\ mazeGrid' = made.g
           /\ rng' = made.r
    /\ pc' = "chambers"
    /\ lastStep' = "createChambers"
    /\ GenerateFrame
    /\ UNCHANGED << exitPosition, nextShiftTime, generations, startCell, foundPath >>

AddArchitecturalFeatures ==
    /\ pc = "chambers"
    /\ LET made == addArchitecturalFeatures(mazeGrid, rng)
       IN  /\ mazeGrid' = made.g
           /\ rng' = made.r
    /\ pc' = "features"
    /\ lastStep' = "addArchitecturalFeatures"
    /\ GenerateFrame
    /\ UNCHANGED << exitPosition, nextShiftTime, generations, startCell, foundPath >>

CreateWiderCorridors ==
    /\ pc = "features"
    /\ LET made == createWiderCorridors(mazeGrid, rng)
       IN  /\ mazeGrid' = made.g
           /\ rng' = made.r
    /\ pc' = "corridors"
    /\ lastStep' = "createWiderCorridors"
    /\ GenerateFrame
    /\ UNCHANGED << exitPosition, nextShiftTime, generations, startCell, foundPath >>

AddRandomVariations ==
    /\ pc = "corridors"
    /\ LET made == addRandomVariations(mazeGrid, rng, exitPosition)
       IN  /\ mazeGrid' = made.g
           /\ rng' = made.r
    /\ pc' = "variations"
    /\ lastStep' = "addRandomVariations"
    /\ GenerateFrame
    /\ UNCHANGED << exitPosition, nextShiftTime, generations, startCell, foundPath >>

\* the validator at the end of generateMaze(), and its return
EnsureMazeIsSolvable ==
    /\ pc = "variations"
    /\ mazeGrid' = ensureMazeIsSolvable(mazeGrid, exitPosition)
    /\ startCell' = findStartCell(mazeGrid, exitPosition)
    /\ foundPath' = (startCell' # NoCell /\ pathFound(mazeGrid, exitPosition, startCell'))
    /\ pc' = "ready"
    /\ lastStep' = "ensureMazeIsSolvable"
    /\ prevGrid' = mazeGrid
    /\ prevShiftTime' = nextShiftTime
    /\ generated' = TRUE
    /\ UNCHANGED << width, height, patternType, rng, exitPosition, nextShiftTime, generations,
                    firings, lastDelta, returned, wallsToShift, batchGrid >>
    /\ UNCHANGED << serverVars, noiseIndex, loop >>

\* a countdown that misses the call that brings it to exactly zero
shiftDueStrict(t) == t < 0

\* if (this.nextShiftTime <= 0)
shiftDue(t) == t <= 0

\* updateMaze(deltaTime): the countdown, and shiftMazeWalls() when it runs out
\* a reset that keeps the time by which the countdown overshot zero
resetCarryingOvershoot(t) == t + shiftInterval * 1000

\* this.nextShiftTime = this.shiftInterval
resetCountdown(t) == shiftInterval * 1000

UpdateMaze(deltaTime) ==
    /\ pc \in {"constructed", "ready"}
    /\ prevGrid' = mazeGrid
    /\ prevShiftTime' = nextShiftTime
    /\ lastDelta' = deltaTime
    /\ IF shiftDue(nextShiftTime - deltaTime)
       THEN /\ firings < MaxFirings
            /\ LET shift == shiftMazeWalls(mazeGrid, rng, exitPosition)
               IN  /\ mazeGrid' = shift.g
                   /\ rng' = shift.r
                   /\ wallsToShift' = shift.batch
                   /\ batchGrid' = shift.shifted
                   /\ startCell' = findStartCell(shift.shifted, exitPosition)
                   /\ foundPath' = (startCell' # NoCell
                                    /\ pathFound(shift.shifted, exitPosition, startCell'))
            /\ nextShiftTime' = resetCountdown(nextShiftTime - deltaTime)
            /\ firings' = firings + 1
            /\ returned' = TRUE
            /\ lastStep' = "shift"
       ELSE /\ nextShiftTime' = nextShiftTime - deltaTime
            /\ returned' = FALSE
            /\ lastStep' = "countdown"
            /\ UNCHANGED << mazeGrid, rng, wallsToShift, batchGrid, startCell, foundPath,
                            firings >>
    /\ UNCHANGED << width, height, patternType, exitPosition, pc, generated, generations >>
    /\ UNCHANGED << serverVars, noiseIndex, loop >>

Next ==
    \/ GenerateMaze
    \/ CreateExit
    \/ CreateChambers
    \/ AddArchitecturalFeatures
    \/ CreateWiderCorridors
    \/ AddRandomVariations
    \/ EnsureMazeIsSolvable
    \/ \E deltaTime \in DeltaTimes : UpdateMaze(deltaTime)

Spec == Init /\ [][Next]_vars

(***************************************************************************)
(* The validator on its own: ensureMazeIsSolvable() applied twice to every *)
(* grid of ProbeWidth x ProbeHeight cells with the exit on any edge cell.  *)
(* batchGrid keeps the grid the validator was first given.                 *)
(***************************************************************************)
InitValidator ==
    /\ NoServer
    /\ noiseIndex = 0
    /\ loop = NoLoop
    /\ width = ProbeWidth
    /\ height = ProbeHeight
    /\ mazeGrid \in [0..(ProbeWidth - 1) -> [0..(ProbeHeight - 1) -> BOOLEAN]]
    /\ exitPosition \in {c \in Cells : c.x = 0 \/ c.x = width - 1 \/ c.y = 0 \/ c.y = height - 1}
    /\ nextShiftTime = shiftInterval * 1000
    /\ rng = 0
    /\ patternType = 0
    /\ pc = "unvalidated"
    /\ generated = FALSE
    /\ generations = 0
    /\ firings = 0
    /\ lastStep = "constructor"
    /\ prevGrid = mazeGrid
    /\ prevShiftTime = nextShiftTime
    /\ lastDelta = 0
    /\ returned = FALSE
    /\ wallsToShift = << >>
    /\ batchGrid = mazeGrid
    /\ startCell = NoCell
    /\ foundPath = FALSE

RunValidator ==
    /\ pc \in {"unvalidated", "validated"}
    /\ mazeGrid' = ensureMazeIsSolvable(mazeGrid, exitPosition)
    /\ startCell' = findStartCell(mazeGrid, exitPosition)
    /\ foundPath' = (startCell' # NoCell /\ pathFound(mazeGrid, exitPosition, startCell'))
    /\ pc' = IF pc = "unvalidated" THEN "validated" ELSE "revalidated"
    /\ lastStep' = "ensureMazeIsSolvable"
    /\ prevGrid' = mazeGrid
    /\ UNCHANGED << width, height, exitPosition, nextShiftTime, patternType, rng, generated,
                    generations, firings, prevShiftTime, lastDelta, returned, wallsToShift,
                    batchGrid >>
    /\ UNCHANGED << serverVars, noiseIndex, loop >>

SpecValidator == InitValidator /\ [][RunValidator]_vars

(***************************************************************************)
(* Construction on its own: new MazeGenerator(width, height, cellSize)     *)
(* with dimensions given directly or taken from the room options, followed *)
(* by the generateMaze() call that RoomManager.startGame() makes.  pc is   *)
(* "direct" or "roomOptions" before the constructor runs, "RangeError"     *)
(* when it throws, "constructed" when it returns, and "generateMaze" once  *)
(* generateMaze() has been entered.                                        *)
(***************************************************************************)
\* options.mazeWidth || 20: a falsy 0 is replaced by the default
roomOption(value, default) == IF value = 0 THEN default ELSE value

\* Array(n) throws a RangeError for a negative length
arrayThrows(n) == n < 0

\* Array(width).fill().map(() => Array(height).fill(true)): the inner Array(height)
\* is evaluated once per column, so not at all when width = 0
constructorThrows == arrayThrows(width) \/ (width > 0 /\ arrayThrows(height))

InitConstruct ==
    /\ NoServer
    /\ noiseIndex = 0
    /\ loop = NoLoop
    /\ \E w \in (-MaxDimension)..MaxDimension, h \in (-MaxDimension)..MaxDimension :
          \/ /\ pc = "direct"
             /\ width = w
             /\ height = h
          \/ /\ pc = "roomOptions"
             /\ width = roomOption(w, defaultMazeWidth)
             /\ height = roomOption(h, defaultMazeHeight)
    /\ mazeGrid = << >>
    /\ exitPosition = [x |-> 0, y |-> 0]
    /\ nextShiftTime = 0
    /\ rng = 0
    /\ patternType = 0
    /\ generated = FALSE
    /\ generations = 0
    /\ firings = 0
    /\ lastStep = "none"
    /\ prevGrid = << >>
    /\ prevShiftTime = 0
    /\ lastDelta = 0
    /\ returned = FALSE
    /\ wallsToShift = << >>
    /\ batchGrid = << >>
    /\ startCell = NoCell
    /\ foundPath = FALSE

\* new MazeGenerator(width, height, cellSize)
Construct ==
    /\ pc \in {"direct", "roomOptions"}
    /\ IF constructorThrows
       THEN /\ pc' = "RangeError"
            /\ UNCHANGED mazeGrid
       ELSE /\ pc' = "constructed"
            /\ mazeGrid' = AllWalls
    /\ lastStep' = "constructor"
    /\ UNCHANGED << width, height, exitPosition, nextShiftTime, patternType, rng, generated,
                    generations, firings, prevGrid, prevShiftTime, lastDelta, returned,
                    wallsToShift, batchGrid, startCell, foundPath >>
    /\ UNCHANGED << serverVars, noiseIndex, loop >>

\* room.mazeGenerator.generateMaze() is entered; initializeMaze() is its first statement
EnterGenerateMaze ==
    /\ pc = "constructed"
    /\ pc' = "generateMaze"
    /\ mazeGrid' = AllWalls
    /\ nextShiftTime' = shiftInterval * 1000
    /\ generations' = generations + 1
    /\ lastStep' = "initializeMaze"
    /\ UNCHANGED << width, height, exitPosition, patternType, rng, generated, firings,
                    prevGrid, prevShiftTime, lastDelta, returned, wallsToShift, batchGrid,
                    startCell, foundPath >>
    /\ UNCHANGED << serverVars, noiseIndex, loop >>

NextConstruct == Construct \/ EnterGenerateMaze

SpecConstruct == InitConstruct /\ [][NextConstruct]_vars

(***************************************************************************)
(* generateMaze() with addRandomVariations() run one loop iteration at a   *)
(* time, up to the return of addRandomVariations().                        *)
(***************************************************************************)
NoiseFrame ==
    /\ prevGrid' = mazeGrid
    /\ UNCHANGED << width, height, exitPosition, nextShiftTime, patternType, generated,
                    generations, firings, prevShiftTime, lastDelta, returned, wallsToShift,
                    batchGrid, startCell, foundPath >>
    /\ UNCHANGED << serverVars, loop >>

\* the body of the for loop, and i++
VariationIteration ==
    /\ pc = "corridors"
    /\ noiseIndex < variationCount
    /\ LET made == variationIteration(mazeGrid, rng, exitPosition)
       IN  /\ mazeGrid' = made.g
           /\ rng' = made.r
    /\ noiseIndex' = noiseIndex + 1
    /\ lastStep' = "variationIteration"
    /\ pc' = pc
    /\ NoiseFrame

\* the loop condition fails: addRandomVariations() returns
VariationsReturn ==
    /\ pc = "corridors"
    /\ noiseIndex >= variationCount
    /\ pc' = "variations"
    /\ lastStep' = "addRandomVariations"
    /\ UNCHANGED << mazeGrid, rng, noiseIndex >>
    /\ NoiseFrame

NextNoise ==
    \/ GenerateMaze
    \/ CreateExit
    \/ CreateChambers
    \/ AddArchitecturalFeatures
    \/ CreateWiderCorridors
    \/ VariationIteration
    \/ VariationsReturn

SpecNoise == Init /\ [][NextNoise]_vars

(***************************************************************************)
(* runPrimsAlgorithm() on the all-wall grid the constructor and            *)
(* initializeMaze() make, for grids of even and of odd dimensions.         *)
(***************************************************************************)
InitPrim ==
    /\ NoServer
    /\ noiseIndex = 0
    /\ loop = NoLoop
    /\ width \in {MazeWidth - 1, MazeWidth}
    /\ height \in {MazeHeight - 1, MazeHeight}
    /\ mazeGrid = AllWalls
    /\ exitPosition = [x |-> 0, y |-> 0]
    /\ nextShiftTime = shiftInterval * 1000
    /\ \E seed \in 0..(NumSeeds - 1) : rng = NextRandom(seed)
    /\ patternType = 0
    /\ pc = "initializeMaze"
    /\ generated = FALSE
    /\ generations = 1
    /\ firings = 0
    /\ lastStep = "initializeMaze"
    /\ prevGrid = AllWalls
    /\ prevShiftTime = 0
    /\ lastDelta = 0
    /\ returned = FALSE
    /\ wallsToShift = << >>
    /\ batchGrid = AllWalls
    /\ startCell = NoCell
    /\ foundPath = FALSE

\* runPrimsAlgorithm(); startCell keeps the cell it started from
RunPrimsAlgorithm ==
    /\ pc = "initializeMaze"
    /\ LET made == runPrimsAlgorithm(rng)
       IN  /\ mazeGrid' = made.g
           /\ rng' = made.r
           /\ startCell' = made.start
    /\ pc' = "prim"
    /\ lastStep' = "runPrimsAlgorithm"
    /\ prevGrid' = mazeGrid
    /\ UNCHANGED << width, height, exitPosition, nextShiftTime, patternType, generated,
                    generations, firings, prevShiftTime, lastDelta, returned, wallsToShift,
                    batchGrid, foundPath >>
    /\ UNCHANGED << serverVars, noiseIndex, loop >>

SpecPrim == InitPrim /\ [][RunPrimsAlgorithm]_vars

(***************************************************************************)
(* The loops run one iteration at a time: the frontier loop of             *)
(* runPrimsAlgorithm(), the breadth-first search of ensureMazeIsSolvable() *)
(* and the two walks of createPathToExit().  generateMaze() takes either   *)
(* branch of its switch (a pattern, or runPrimsAlgorithm()); a shift       *)
(* firing applies its batch and then runs the same validator.              *)
(***************************************************************************)
\* x += stepX that leaves x where it is
walkStepStuck(position, step) == position

\* x += stepX; y += stepY
walkStep(position, step) == position + step

\* the forEach over directions in the search: the open, unvisited neighbours of
\* current are marked visited and pushed
RECURSIVE pushNeighbours(_, _, _, _)
pushNeighbours(g, search, current, d) ==
    IF d > 4 THEN search
    ELSE LET next == [x |-> current.x + directions[d].x, y |-> current.y + directions[d].y]
         IN  IF IsPath(g, next.x, next.y) /\ next \notin search.visited
             THEN pushNeighbours(g, [search EXCEPT !.queue = Append(@, next),
                                                   !.visited = @ \cup {next},
                                                   !.pushes = @ + 1],
                                 current, d + 1)
             ELSE pushNeighbours(g, search, current, d + 1)

LoopFrame ==
    /\ prevShiftTime' = nextShiftTime
    /\ UNCHANGED << width, height, patternType, generated, generations, lastDelta, returned,
                    wallsToShift, batchGrid, prevGrid >>
    /\ UNCHANGED << serverVars, noiseIndex >>

\* generateMaze() when the switch takes its default branch: initializeMaze(), and
\* runPrimsAlgorithm() up to its loop
StartPrims ==
    /\ pc = "constructed"
    /\ generations = 0
    /\ LET r1 == NextRandom(rng)
           r2 == NextRandom(r1)
           startCell0 == [x |-> RandFloor(r1, width, 1), y |-> RandFloor(r2, height, 1)]
           started == Carve(AllWalls, startCell0.x, startCell0.y)
       IN  /\ mazeGrid' = started
           /\ rng' = r2
           /\ loop' = [NoLoop EXCEPT !.frontiers = addFrontiers(started, << >>, startCell0, 1)]
    /\ nextShiftTime' = shiftInterval * 1000
    /\ generations' = 1
    /\ pc' = "prim"
    /\ lastStep' = "runPrimsAlgorithm"
    /\ prevShiftTime' = nextShiftTime
    /\ UNCHANGED << width, height, patternType, generated, lastDelta, returned, wallsToShift,
                    batchGrid, prevGrid, exitPosition, firings, startCell, foundPath >>
    /\ UNCHANGED << serverVars, noiseIndex >>

\* one iteration of while (this.frontiers.length > 0)
PrimIteration ==
    /\ pc = "prim"
    /\ Len(loop.frontiers) > 0
    /\ LET made == primIteration(mazeGrid, rng, loop.frontiers)
       IN  /\ mazeGrid' = made.g
           /\ rng' = made.r
           /\ loop' = [loop EXCEPT !.frontiers = made.frontiers]
    /\ lastStep' = "primIteration"
    /\ LoopFrame
    /\ UNCHANGED << pc, exitPosition, nextShiftTime, firings, startCell, foundPath >>

\* the frontier is empty: runPrimsAlgorithm() returns
PrimReturn ==
    /\ pc = "prim"
    /\ Len(loop.frontiers) = 0
    /\ pc' = "pattern"
    /\ lastStep' = "pattern"
    /\ loop' = NoLoop
    /\ LoopFrame
    /\ UNCHANGED << mazeGrid, rng, exitPosition, nextShiftTime, firings, startCell, foundPath >>

\* generateMaze() when the switch takes a pattern
GeneratePatterned ==
    /\ pc = "constructed"
    /\ GenerateMaze

\* the return of ensureMazeIsSolvable(): to generateMaze(), or to updateMaze(), which
\* sets the countdown again
ValidatorReturn ==
    /\ pc' = "ready"
    /\ generated' = TRUE
    /\ nextShiftTime' = IF shiftDue(nextShiftTime) THEN shiftInterval * 1000 ELSE nextShiftTime
    /\ prevShiftTime' = nextShiftTime
    /\ UNCHANGED << width, height, patternType, generations, lastDelta, returned, wallsToShift,
                    batchGrid, prevGrid, exitPosition, firings, rng >>
    /\ UNCHANGED << serverVars, noiseIndex >>

\* ensureMazeIsSolvable() up to its search loop: the scan for the start cell
ValidatorStart ==
    /\ pc \in {"variations", "batch"}
    /\ startCell' = findStartCell(mazeGrid, exitPosition)
    /\ foundPath' = FALSE
    /\ lastStep' = "findStartCell"
    /\ IF startCell' = NoCell
       THEN /\ loop' = NoLoop
            /\ ValidatorReturn
            /\ UNCHANGED mazeGrid
       ELSE /\ loop' = [NoLoop EXCEPT !.queue = << startCell' >>, !.visited = {startCell'},
                                      !.pushes = 1]
            /\ pc' = "search"
            /\ LoopFrame
            /\ UNCHANGED << mazeGrid, rng, exitPosition, nextShiftTime, firings >>

\* one iteration of while (queue.length > 0)
SearchIteration ==
    /\ pc = "search"
    /\ Len(loop.queue) > 0
    /\ LET current == Head(loop.queue)
           shifted == [loop EXCEPT !.queue = Tail(@)]
       IN  IF current = exitPosition
           THEN /\ foundPath' = TRUE
                /\ loop' = shifted
                /\ pc' = "searched"
           ELSE /\ loop' = pushNeighbours(mazeGrid, shifted, current, 1)
                /\ UNCHANGED << foundPath, pc >>
    /\ lastStep' = "searchIteration"
    /\ LoopFrame
    /\ UNCHANGED << mazeGrid, rng, exitPosition, nextShiftTime, firings, startCell >>

\* the queue is empty: the loop ends without having found the exit
SearchEnd ==
    /\ pc = "search"
    /\ Len(loop.queue) = 0
    /\ pc' = "searched"
    /\ lastStep' = "searchEnd"
    /\ LoopFrame
    /\ UNCHANGED << mazeGrid, rng, exitPosition, nextShiftTime, firings, startCell, foundPath,
                    loop >>

\* if (!foundPath) this.createPathToExit(startCell), up to its first loop
ValidatorDecide ==
    /\ pc = "searched"
    /\ lastStep' = "validatorDecide"
    /\ IF foundPath
       THEN /\ loop' = NoLoop
            /\ ValidatorReturn
            /\ UNCHANGED << mazeGrid, startCell, foundPath >>
       ELSE /\ loop' = [NoLoop EXCEPT !.x = startCell.x, !.y = startCell.y]
            /\ pc' = "walkHorizontal"
            /\ LoopFrame
            /\ UNCHANGED << mazeGrid, rng, exitPosition, nextShiftTime, firings, startCell,
                            foundPath >>

\* one iteration of while (x !== this.exitPosition.x)
WalkHorizontal ==
    /\ pc = "walkHorizontal"
    /\ loop.x # exitPosition.x
    /\ LET stepX == IF exitPosition.x - startCell.x > 0 THEN 1 ELSE -1
           x == walkStep(loop.x, stepX)
       IN  /\ loop' = [loop EXCEPT !.x = x]
           /\ mazeGrid' = Carve(mazeGrid, x, startCell.y)
    /\ lastStep' = "walkHorizontal"
    /\ LoopFrame
    /\ UNCHANGED << pc, rng, exitPosition, nextShiftTime, firings, startCell, foundPath >>

\* x is the exit's column: let y = startCell.y
WalkTurn ==
    /\ pc = "walkHorizontal"
    /\ loop.x = exitPosition.x
    /\ pc' = "walkVertical"
    /\ lastStep' = "walkTurn"
    /\ LoopFrame
    /\ UNCHANGED << mazeGrid, rng, exitPosition, nextShiftTime, firings, startCell, foundPath,
                    loop >>

\* one iteration of while (y !== this.exitPosition.y)
WalkVertical ==
    /\ pc = "walkVertical"
    /\ loop.y # exitPosition.y
    /\ LET stepY == IF exitPosition.y - startCell.y > 0 THEN 1 ELSE -1
           y == walkStep(loop.y, stepY)
       IN  /\ loop' = [loop EXCEPT !.y = y]
           /\ mazeGrid' = Carve(mazeGrid, exitPosition.x, y)
    /\ lastStep' = "walkVertical"
    /\ LoopFrame
    /\ UNCHANGED << pc, rng, exitPosition, nextShiftTime, firings, startCell, foundPath >>

\* y is the exit's row: createPathToExit() and ensureMazeIsSolvable() return
WalkReturn ==
    /\ pc = "walkVertical"
    /\ loop.y = exitPosition.y
    /\ lastStep' = "createPathToExit"
    /\ ValidatorReturn
    /\ UNCHANGED << mazeGrid, startCell, foundPath, loop >>

\* updateMaze(deltaTime) up to the validator: the countdown and, when it is due,
\* the scan and the batch of shiftMazeWalls()
UpdateMazeBatch(deltaTime) ==
    /\ pc = "ready"
    /\ lastDelta' = deltaTime
    /\ prevShiftTime' = nextShiftTime
    /\ nextShiftTime' = nextShiftTime - deltaTime
    /\ IF shiftDue(nextShiftTime - deltaTime)
       THEN /\ firings < MaxLoopFirings
            /\ LET scan == collectShifts(mazeGrid, rng, exitPosition, 1, << >>)
               IN  /\ mazeGrid' = applyShifts(mazeGrid, scan.batch, 1)
                   /\ batchGrid' = applyShifts(mazeGrid, scan.batch, 1)
                   /\ wallsToShift' = scan.batch
                   /\ rng' = scan.r
            /\ prevGrid' = mazeGrid
            /\ firings' = firings + 1
            /\ returned' = TRUE
            /\ pc' = "batch"
            /\ lastStep' = "batch"
       ELSE /\ returned' = FALSE
            /\ lastStep' = "countdown"
            /\ UNCHANGED << mazeGrid, batchGrid, wallsToShift, rng, prevGrid, firings, pc >>
    /\ UNCHANGED << width, height, patternType, generated, generations, exitPosition,
                    startCell, foundPath, loop >>
    /\ UNCHANGED << serverVars, noiseIndex >>

NextLoops ==
    \/ StartPrims
    \/ PrimIteration
    \/ PrimReturn
    \/ GeneratePatterned
    \/ CreateExit
    \/ CreateChambers
    \/ AddArchitecturalFeatures
    \/ CreateWiderCorridors
    \/ AddRandomVariations
    \/ ValidatorStart
    \/ SearchIteration
    \/ SearchEnd
    \/ ValidatorDecide
    \/ WalkHorizontal
    \/ WalkTurn
    \/ WalkVertical
    \/ WalkReturn
    \/ \E deltaTime \in DeltaTimes : UpdateMazeBatch(deltaTime)

\* the constructor, for the first LoopSeeds seeds
InitLoops ==
    /\ Init
    /\ \E seed \in 0..(LoopSeeds - 1) : rng = NextRandom(seed)

\* the steps inside the three loops and between them
LoopSteps ==
    \/ PrimIteration
    \/ PrimReturn
    \/ ValidatorStart
    \/ SearchIteration
    \/ SearchEnd
    \/ ValidatorDecide
    \/ WalkHorizontal
    \/ WalkTurn
    \/ WalkVertical
    \/ WalkReturn

\* a method that is running keeps running: a step of a loop that can be taken is taken
SpecLoops == InitLoops /\ [][NextLoops]_vars /\ WF_vars(LoopSteps)

(***************************************************************************)
(* updateMaze() by steps, called again and again by the game loop's timer: *)
(* the countdown, the scan of shiftMazeWalls() one column x at a time, the *)
(* batch, and then the validator by the steps above.                       *)
(***************************************************************************)
\* a subtraction that leaves the countdown where it is
countdownAbsorbed(t, deltaTime) == t

\* this.nextShiftTime -= deltaTime / 1000, in milliseconds
countdown(t, deltaTime) == t - deltaTime

\* updateMaze(deltaTime) up to the scan of shiftMazeWalls()
UpdateMazeCall(deltaTime) ==
    /\ pc = "ready"
    /\ lastDelta' = deltaTime
    /\ prevShiftTime' = nextShiftTime
    /\ nextShiftTime' = countdown(nextShiftTime, deltaTime)
    /\ IF shiftDue(nextShiftTime')
       THEN /\ firings < MaxShiftFirings
            /\ wallsToShift' = << >>
            /\ loop' = [NoLoop EXCEPT !.x = 1]
            /\ prevGrid' = mazeGrid
            /\ pc' = "scan"
            /\ lastStep' = "shiftMazeWalls"
            /\ UNCHANGED returned
       ELSE /\ returned' = FALSE
            /\ lastStep' = "countdown"
            /\ UNCHANGED << wallsToShift, loop, prevGrid, pc >>
    /\ UNCHANGED << width, height, patternType, generated, generations, exitPosition,
                    startCell, foundPath, mazeGrid, batchGrid, rng, firings >>
    /\ UNCHANGED << serverVars, noiseIndex >>

\* one iteration of for (let x = 1; x < this.width - 1; x++), its inner loop included
ScanColumn ==
    /\ pc = "scan"
    /\ loop.x < width - 1
    /\ LET column == collectColumn(mazeGrid, rng, exitPosition, loop.x, 1, wallsToShift)
       IN  /\ wallsToShift' = column.batch
           /\ rng' = column.r
    /\ loop' = [loop EXCEPT !.x = @ + 1]
    /\ lastStep' = "scan"
    /\ UNCHANGED << width, height, patternType, generated, generations, exitPosition,
                    startCell, foundPath, mazeGrid, batchGrid, firings, nextShiftTime,
                    prevShiftTime, lastDelta, returned, prevGrid, pc >>
    /\ UNCHANGED << serverVars, noiseIndex >>

\* the end of the scan: wallsToShift.forEach(...); then ensureMazeIsSolvable() is
\* entered, and updateMaze() is to return true
ScanEnd ==
    /\ pc = "scan"
    /\ loop.x >= width - 1
    /\ mazeGrid' = applyShifts(mazeGrid, wallsToShift, 1)
    /\ batchGrid' = mazeGrid'
    /\ firings' = firings + 1
    /\ returned' = TRUE
    /\ loop' = NoLoop
    /\ pc' = "batch"
    /\ lastStep' = "batch"
    /\ UNCHANGED << width, height, patternType, generated, generations, exitPosition,
                    startCell, foundPath, rng, wallsToShift, nextShiftTime, prevShiftTime,
                    lastDelta, prevGrid >>
    /\ UNCHANGED << serverVars, noiseIndex >>

NextShifts ==
    \/ StartPrims
    \/ PrimIteration
    \/ PrimReturn
    \/ GeneratePatterned
    \/ CreateExit
    \/ CreateChambers
    \/ AddArchitecturalFeatures
    \/ CreateWiderCorridors
    \/ AddRandomVariations
    \/ ValidatorStart
    \/ SearchIteration
    \/ SearchEnd
    \/ ValidatorDecide
    \/ WalkHorizontal
    \/ WalkTurn
    \/ WalkVertical
    \/ WalkReturn
    \/ \E deltaTime \in DeltaTimes : UpdateMazeCall(deltaTime)
    \/ ScanColumn
    \/ ScanEnd

\* the game loop's timer keeps calling updateMaze(), and a call that is running
\* keeps running
UpdateMazeSteps ==
    \/ \E deltaTime \in DeltaTimes : UpdateMazeCall(deltaTime)
    \/ ScanColumn
    \/ ScanEnd

SpecShifts ==
    InitLoops /\ [][NextShifts]_vars /\ WF_vars(LoopSteps) /\ WF_vars(UpdateMazeSteps)

(***************************************************************************)
(* The server: RoomManager's rooms, each with the MazeGenerator and the    *)
(* GameManager that startGame() gives it, and the game loop of index.js.   *)
(* Objects are kept by address: generators[a] is a MazeGenerator, whose    *)
(* mazeGrid field is the address of a grid array in grids, so that two     *)
(* references to one array see each other's writes.  The maze a            *)
(* GameManager holds is the object getMaze() built: the address of the     *)
(* grid and the exit position.  A room record also keeps, in handed, the   *)
(* contents the grid had when the maze was handed to the GameManager.      *)
(* JavaScript runs a handler to its end: room events do not interleave     *)
(* with the body of the game loop.  An object that nothing references any  *)
(* more is collected: its address holds NoGenerator or NoGrid and may be   *)
(* given to a later object.                                                *)
(***************************************************************************)
\* getMaze(): { grid: this.mazeGrid, ..., exitPosition: this.exitPosition }
getMaze(generator) == [grid |-> generator.mazeGrid, exitPosition |-> generator.exitPosition]

\* a collected MazeGenerator, a collected array
NoGenerator == [mazeGrid |-> 0, exitPosition |-> NoCell, nextShiftTime |-> 0, rng |-> 0,
                patternType |-> 0]
NoGrid == << >>

\* the addresses that rooms reference
LiveGenerators == {rooms[code].mazeGenerator : code \in RoomCodes} \ {0}
LiveGrids == {generators[g].mazeGrid : g \in LiveGenerators}

\* the lowest address of heap that is not in live
FreeAddress(heap, live) == CHOOSE a \in 1..(Len(heap) + 1) :
                              a \notin live /\ \A b \in 1..(a - 1) : b \in live

\* one generator object for every room
allocateSharedGenerator(heap) == 1

\* new MazeGenerator(...): an object that no room references
allocateGenerator(heap) == FreeAddress(heap, LiveGenerators)

\* Array(width).fill().map(...): an array that no generator references
allocateGrid(heap) == FreeAddress(heap, LiveGrids)

\* the object at address a set to v
Store(heap, a, v) == IF a = Len(heap) + 1 THEN Append(heap, v) ELSE [heap EXCEPT ![a] = v]

\* the object at address a collected (a = 0: no object)
Collect(heap, a, none) == IF a = 0 THEN heap ELSE [heap EXCEPT ![a] = none]

InitServer ==
    /\ width = MazeWidth
    /\ height = MazeHeight
    /\ NoServer
    /\ noiseIndex = 0
    /\ loop = NoLoop
    /\ mazeGrid = AllWalls
    /\ exitPosition = [x |-> 0, y |-> 0]
    /\ nextShiftTime = 0
    /\ rng = 0
    /\ patternType = 0
    /\ pc = "listening"
    /\ generated = FALSE
    /\ generations = 0
    /\ firings = 0
    /\ lastStep = "listen"
    /\ prevGrid = AllWalls
    /\ prevShiftTime = 0
    /\ lastDelta = 0
    /\ returned = FALSE
    /\ wallsToShift = << >>
    /\ batchGrid = AllWalls
    /\ startCell = NoCell
    /\ foundPath = FALSE

\* what no server step changes: the fields of the single-generator specification
ServerFrame ==
    UNCHANGED << width, height, mazeGrid, exitPosition, nextShiftTime, patternType, rng, pc,
                 generated, prevGrid, prevShiftTime, wallsToShift, batchGrid, startCell,
                 foundPath, playerRooms, noiseIndex, loop >>

\* the 'createRoom' handler: createRoom(null, options), then joinRoom() of the creator
CreateRoom(code) ==
    /\ tick = NoTick
    /\ rooms[code].state = "absent"
    /\ rooms' = [rooms EXCEPT ![code].state = "lobby", ![code].players = 1]
    /\ lastStep' = "createRoom"
    /\ ServerFrame
    /\ UNCHANGED << generators, grids, tick, generations, firings, lastDelta, returned >>

\* leaveRoom(playerId) of the room's last player: this.rooms.delete(roomCode)
LeaveRoom(code) ==
    /\ tick = NoTick
    /\ rooms[code].state # "absent"
    /\ LET old == rooms[code].mazeGenerator
       IN  /\ generators' = Collect(generators, old, NoGenerator)
           /\ grids' = Collect(grids, IF old = 0 THEN 0 ELSE generators[old].mazeGrid, NoGrid)
    /\ rooms' = [rooms EXCEPT ![code] = NoRoom]
    /\ lastStep' = "leaveRoom"
    /\ ServerFrame
    /\ UNCHANGED << tick, generations, firings, lastDelta, returned >>

\* startGame(code): a new MazeGenerator, generateMaze(), setMaze(maze)
StartGame(code) ==
    /\ tick = NoTick
    /\ rooms[code].state \notin {"absent", "playing"}
    /\ rooms[code].players >= 1
    /\ \E seed \in 0..(RoomSeeds - 1) :
          LET r0 == NextRandom(seed)
              p == drawPatternType(r0)
          IN  \* generateMaze(), one stage after the other
              \E base \in {GeneratePattern(p, r0)} :
              \E exit \in {createExit(base.g, base.r)} :
              \E chambers \in {createChambers(exit.g, exit.r, exit.e)} :
              \E features \in {addArchitecturalFeatures(chambers.g, chambers.r)} :
              \E corridors \in {createWiderCorridors(features.g, features.r)} :
              \E variations \in {addRandomVariations(corridors.g, corridors.r, exit.e)} :
              \E solvable \in {ensureMazeIsSolvable(variations.g, exit.e)} :
                  LET g == allocateGenerator(generators)
                      a == allocateGrid(grids)
                      old == rooms[code].mazeGenerator
                      generator == [mazeGrid |-> a, exitPosition |-> exit.e,
                                    nextShiftTime |-> shiftInterval * 1000,
                                    rng |-> variations.r, patternType |-> p]
                  IN  /\ generators' = Store(Collect(generators, old, NoGenerator), g,
                                             generator)
                      /\ grids' = Store(Collect(grids, IF old = 0 THEN 0
                                                       ELSE generators[old].mazeGrid, NoGrid),
                                        a, solvable)
                      /\ rooms' = [rooms EXCEPT ![code].mazeGenerator = g,
                                                ![code].maze = getMaze(generator),
                                                ![code].handed = solvable,
                                                ![code].state = "playing"]
    /\ lastStep' = "startGame"
    /\ ServerFrame
    /\ UNCHANGED << tick, generations, firings, lastDelta, returned >>

\* endGame(code)
EndGame(code) ==
    /\ tick = NoTick
    /\ rooms[code].state # "absent"
    /\ rooms' = [rooms EXCEPT ![code].state = "ended"]
    /\ lastStep' = "endGame"
    /\ ServerFrame
    /\ UNCHANGED << generators, grids, tick, generations, firings, lastDelta, returned >>

\* every room whose game was started is ticked
roomIsTickedOnceStarted(room) == room.mazeGenerator # 0

\* if (room.state !== 'playing') continue
roomIsTicked(room) == room.state = "playing"

\* the game loop at a room: room.mazeGenerator.updateMaze(deltaTime), deltaTime
\* standing for the ticks that add up to it
TickUpdateMaze(code, deltaTime) ==
    /\ tick = NoTick
    /\ rooms[code].state # "absent"
    /\ roomIsTicked(rooms[code])
    /\ LET g == rooms[code].mazeGenerator
           generator == generators[g]
       IN  IF shiftDue(generator.nextShiftTime - deltaTime)
           THEN /\ firings < MaxRoomFirings
                /\ LET shift == shiftMazeWalls(grids[generator.mazeGrid], generator.rng,
                                               generator.exitPosition)
                   IN  /\ grids' = [grids EXCEPT ![generator.mazeGrid] = shift.g]
                       /\ generators' = [generators EXCEPT
                                             ![g].rng = shift.r,
                                             ![g].nextShiftTime = shiftInterval * 1000]
                /\ firings' = firings + 1
                /\ tick' = [room |-> code, mazeUpdated |-> TRUE]
           ELSE /\ generators' = [generators EXCEPT
                                     ![g].nextShiftTime = generator.nextShiftTime - deltaTime]
                /\ UNCHANGED << grids, firings, tick >>
    /\ lastStep' = "updateMaze"
    /\ ServerFrame
    /\ UNCHANGED << rooms, generations, lastDelta, returned >>

\* if (mazeUpdated) { room.gameManager.setMaze(room.mazeGenerator.getMaze());
\*                    io.to(roomCode).emit('mazeUpdated', room.gameManager.getMaze()) }
\* handed is the grid as the emit serializes it
TickSetMaze(code) ==
    /\ tick = [room |-> code, mazeUpdated |-> TRUE]
    /\ LET generator == generators[rooms[code].mazeGenerator]
           maze == getMaze(generator)
       IN  rooms' = [rooms EXCEPT ![code].maze = maze,
                                 ![code].handed = grids[maze.grid]]
    /\ tick' = NoTick
    /\ lastStep' = "mazeUpdated"
    /\ ServerFrame
    /\ UNCHANGED << generators, grids, generations, firings, lastDelta, returned >>

NextServer ==
    \E code \in RoomCodes :
        \/ CreateRoom(code)
        \/ LeaveRoom(code)
        \/ StartGame(code)
        \/ EndGame(code)
        \/ \E deltaTime \in DeltaTimes : TickUpdateMaze(code, deltaTime)
        \/ TickSetMaze(code)

SpecServer == InitServer /\ [][NextServer]_vars

(***************************************************************************)
(* The membership of rooms: the 'createRoom', 'joinRoom', 'leaveRoom' and  *)
(* 'disconnect' handlers of a socket on RoomManager.rooms and              *)
(* RoomManager.playerRooms.  In this specification room.players is the Set *)
(* of socket ids itself, and every room stays in the lobby.  An id that    *)
(* has disconnected stands, when it acts again, for a socket that          *)
(* connected later.                                                        *)
(***************************************************************************)
\* maxPlayers: options.maxPlayers || 8
defaultMaxPlayers == 8

\* no entry of RoomManager.rooms under the code
NoLobby == [state |-> "absent", players |-> {}]

\* new RoomManager(), the server listening
InitRooms ==
    /\ rooms = [code \in RoomCodes |-> NoLobby]
    /\ playerRooms = [id \in PlayerIds |-> ""]
    /\ generators = << >>
    /\ grids = << >>
    /\ tick = NoTick
    /\ width = MazeWidth
    /\ height = MazeHeight
    /\ noiseIndex = 0
    /\ loop = NoLoop
    /\ mazeGrid = AllWalls
    /\ exitPosition = [x |-> 0, y |-> 0]
    /\ nextShiftTime = 0
    /\ rng = 0
    /\ patternType = 0
    /\ pc = "listening"
    /\ generated = FALSE
    /\ generations = 0
    /\ firings = 0
    /\ lastStep = "listen"
    /\ prevGrid = AllWalls
    /\ prevShiftTime = 0
    /\ lastDelta = 0
    /\ returned = FALSE
    /\ wallsToShift = << >>
    /\ batchGrid = AllWalls
    /\ startCell = NoCell
    /\ foundPath = FALSE

\* joinRoom(playerId, roomCode): the room and the map after the call
joinRoom(playerId, roomCode) ==
    IF rooms[roomCode].state = "absent"
       \/ Cardinality(rooms[roomCode].players) >= defaultMaxPlayers
       \/ rooms[roomCode].state = "playing"
    THEN [rooms |-> rooms, playerRooms |-> playerRooms]
    ELSE [rooms |-> [rooms EXCEPT ![roomCode].players = @ \cup {playerId}],
          playerRooms |-> [playerRooms EXCEPT ![playerId] = roomCode]]

\* leaveRoom(playerId): the room the map names loses the player, and is deleted
\* when it is left empty
leaveRoom(playerId) ==
    LET roomCode == playerRooms[playerId]
        left == rooms[roomCode].players \ {playerId}
    IN  IF roomCode = "" THEN [rooms |-> rooms, playerRooms |-> playerRooms]
        ELSE IF rooms[roomCode].state = "absent"
        THEN [rooms |-> rooms, playerRooms |-> [playerRooms EXCEPT ![playerId] = ""]]
        ELSE [rooms |-> [rooms EXCEPT ![roomCode] =
                                   IF left = {} THEN NoLobby ELSE [@ EXCEPT !.players = left]],
              playerRooms |-> [playerRooms EXCEPT ![playerId] = ""]]

\* socket.on('createRoom'): createRoom(null, options) under a code no room has, then
\* joinRoom(socket.id, code)
SocketCreateRoom(id, code) ==
    /\ rooms[code].state = "absent"
    /\ LET created == [rooms EXCEPT ![code] = [state |-> "lobby", players |-> {id}]]
       IN  /\ rooms' = created
           /\ playerRooms' = [playerRooms EXCEPT ![id] = code]
    /\ lastStep' = "createRoom"
    /\ UNCHANGED << width, height, mazeGrid, exitPosition, nextShiftTime, patternType, rng, pc,
                    generated, prevGrid, prevShiftTime, wallsToShift, batchGrid, startCell,
                    foundPath, noiseIndex, loop, generators, grids, tick, generations,
                    firings, lastDelta, returned >>

\* socket.on('joinRoom'): joinRoom(socket.id, roomCode)
SocketJoinRoom(id, code) ==
    /\ rooms' = joinRoom(id, code).rooms
    /\ playerRooms' = joinRoom(id, code).playerRooms
    /\ lastStep' = "joinRoom"
    /\ UNCHANGED << width, height, mazeGrid, exitPosition, nextShiftTime, patternType, rng, pc,
                    generated, prevGrid, prevShiftTime, wallsToShift, batchGrid, startCell,
                    foundPath, noiseIndex, loop, generators, grids, tick, generations,
                    firings, lastDelta, returned >>

\* socket.on('leaveRoom'): leaveRoom(socket.id)
SocketLeaveRoom(id) ==
    /\ rooms' = leaveRoom(id).rooms
    /\ playerRooms' = leaveRoom(id).playerRooms
    /\ lastStep' = "leaveRoom"
    /\ UNCHANGED << width, height, mazeGrid, exitPosition, nextShiftTime, patternType, rng, pc,
                    generated, prevGrid, prevShiftTime, wallsToShift, batchGrid, startCell,
                    foundPath, noiseIndex, loop, generators, grids, tick, generations,
                    firings, lastDelta, returned >>

\* socket.on('disconnect'): leaveRoom(socket.id) when getPlayerRoom(socket.id) is a room
SocketDisconnect(id) ==
    /\ IF playerRooms[id] # "" /\ rooms[playerRooms[id]].state # "absent"
       THEN /\ rooms' = leaveRoom(id).rooms
            /\ playerRooms' = leaveRoom(id).playerRooms
       ELSE UNCHANGED << rooms, playerRooms >>
    /\ lastStep' = "disconnect"
    /\ UNCHANGED << width, height, mazeGrid, exitPosition, nextShiftTime, patternType, rng, pc,
                    generated, prevGrid, prevShiftTime, wallsToShift, batchGrid, startCell,
                    foundPath, noiseIndex, loop, generators, grids, tick, generations,
                    firings, lastDelta, returned >>

NextRooms ==
    \E id \in PlayerIds :
        \/ \E code \in RoomCodes : SocketCreateRoom(id, code)
        \/ \E code \in RoomCodes : SocketJoinRoom(id, code)
        \/ SocketLeaveRoom(id)
        \/ SocketDisconnect(id)

SpecRooms == InitRooms /\ [][NextRooms]_vars

(***************************************************************************)
(* Properties.                                                             *)
(***************************************************************************)
\* the path cells joined to the cell set wave by orthogonally adjacent path cells
RECURSIVE Flood(_, _, _)
Flood(g, wave, seen) ==
    IF wave = {} THEN seen
    ELSE LET more == {c \in Cells : /\ ~g[c.x][c.y]
                                    /\ c \notin seen
                                    /\ \E w \in wave :
                                          (c.x - w.x) * (c.x - w.x) + (c.y - w.y) * (c.y - w.y) = 1}
         IN  Flood(g, more, seen \cup more)

\* the path cells connected to the exit ({} when the exit cell is a wall)
ExitComponent(g, e) == IF g[e.x][e.y] THEN {} ELSE Flood(g, {e}, {e})

\* the cells within Euclidean distance < 3 of the exit
ExclusionZone == {c \in Cells : DistSq(c.x, c.y, exitPosition) < 9}

\* the cells whose state differs between two grids
Changed(g1, g2) == {c \in Cells : g1[c.x][c.y] # g2[c.x][c.y]}

RefinementSteps ==
    {"createChambers", "addArchitecturalFeatures", "createWiderCorridors", "addRandomVariations"}

(***************************************************************************)
(* C1.  After every completed generateMaze()/regenerateMaze() and after    *)
(* every shift firing, every path cell of the grid is connected to the     *)
(* exit by orthogonally adjacent path cells.                               *)
(***************************************************************************)
C1_EveryPathCellReachesExit ==
    (pc = "ready" /\ generated /\ lastStep \in {"ensureMazeIsSolvable", "shift"})
        => \A c \in Cells : ~mazeGrid[c.x][c.y] => c \in ExitComponent(mazeGrid, exitPosition)

(***************************************************************************)
(* C2.  After generateMaze() and after each shift firing that follows it,  *)
(* the validator's probe cell (the first path cell of the scan that is not *)
(* the exit) is connected to the exit by orthogonally adjacent path cells. *)
(***************************************************************************)
C2_ProbeCellReachesExit ==
    (pc = "ready" /\ generated)
        => LET probe == findStartCell(mazeGrid, exitPosition)
           IN  probe # NoCell => probe \in ExitComponent(mazeGrid, exitPosition)

\* a shift firing after generation cut the probe cell off and the repair ran
C2_Witness ==
    /\ pc = "ready" /\ generated /\ lastStep = "shift"
    /\ startCell # NoCell /\ ~foundPath
    /\ startCell \notin ExitComponent(batchGrid, exitPosition)
    /\ findStartCell(mazeGrid, exitPosition) \in ExitComponent(mazeGrid, exitPosition)

(***************************************************************************)
(* C3.  Once a maze has been generated, the exit cell is a path cell after *)
(* every generateMaze()/regenerateMaze() call and before and after every   *)
(* shift firing.                                                           *)
(***************************************************************************)
C3_ExitIsPath ==
    (pc = "ready" /\ generated)
        => /\ ~mazeGrid[exitPosition.x][exitPosition.y]
           /\ lastStep = "shift" => ~prevGrid[exitPosition.x][exitPosition.y]

\* generateMaze() ends with the exit open although the refinement had walled it
C3_Witness ==
    /\ pc = "ready" /\ lastStep = "ensureMazeIsSolvable"
    /\ prevGrid[exitPosition.x][exitPosition.y]
    /\ ~mazeGrid[exitPosition.x][exitPosition.y]

(***************************************************************************)
(* C4.  From the moment createExit() has placed the exit, no pass sets the *)
(* exit cell to wall, not even inside generateMaze() before the validator  *)
(* runs.                                                                   *)
(***************************************************************************)
C4_ExitNeverWalled ==
    pc \in {"exit", "chambers", "features", "corridors", "variations", "ready"}
        => ~mazeGrid[exitPosition.x][exitPosition.y]

(***************************************************************************)
(* C5.  Validator idempotence: when the exit is reachable from the probe   *)
(* cell, ensureMazeIsSolvable() changes no cell; and a second run of the   *)
(* validator changes nothing the first run left.                           *)
(***************************************************************************)
C5_ValidatorIdempotent ==
    /\ (pc \in {"validated", "revalidated"}
        /\ findStartCell(prevGrid, exitPosition) \in ExitComponent(prevGrid, exitPosition))
            => mazeGrid = prevGrid
    /\ pc = "revalidated" => mazeGrid = prevGrid

\* the first run carved a corridor and the second run has been made
C5_Witness ==
    /\ pc = "revalidated"
    /\ batchGrid # prevGrid
    /\ mazeGrid = prevGrid

(***************************************************************************)
(* C6.  updateMaze(deltaTime) returns true if and only if at least one     *)
(* grid cell differs between the grid before the call and the grid after   *)
(* it.                                                                     *)
(***************************************************************************)
C6_ReturnsTrueIffChanged ==
    (generated /\ lastStep \in {"shift", "countdown"}) => (returned <=> mazeGrid # prevGrid)

(***************************************************************************)
(* C7.  Shift countdown: generateMaze() sets the countdown to              *)
(* shiftInterval; updateMaze(deltaTime) subtracts deltaTime; the shift     *)
(* fires in exactly the call that brings the countdown to zero or below    *)
(* and leaves it at shiftInterval; a call that leaves the countdown above  *)
(* zero changes no grid cell.                                              *)
(***************************************************************************)
C7_ShiftCountdown ==
    /\ lastStep = "pattern" => nextShiftTime = shiftInterval * 1000
    /\ lastStep = "countdown"
          => /\ nextShiftTime = prevShiftTime - lastDelta
             /\ nextShiftTime > 0
             /\ mazeGrid = prevGrid
             /\ ~returned
    /\ lastStep = "shift"
          => /\ prevShiftTime - lastDelta <= 0
             /\ nextShiftTime = shiftInterval * 1000
             /\ returned

\* a firing in the call that brings the countdown of a generated maze to exactly zero
C7_Witness ==
    /\ generated /\ lastStep = "shift"
    /\ prevShiftTime > 0
    /\ prevShiftTime - lastDelta = 0

(***************************************************************************)
(* C8.  The batch collected by a shift firing never contains a cell whose  *)
(* distance to the exit is < 3 nor a boundary cell.                        *)
(***************************************************************************)
C8_BatchOutsideExclusionZone ==
    lastStep = "shift"
        => \A k \in 1..Len(wallsToShift) :
              /\ DistSq(wallsToShift[k].x, wallsToShift[k].y, exitPosition) >= 9
              /\ wallsToShift[k].x > 0 /\ wallsToShift[k].x < width - 1
              /\ wallsToShift[k].y > 0 /\ wallsToShift[k].y < height - 1

\* a firing on a generated maze whose batch holds conversions in both directions
C8_Witness ==
    /\ generated /\ lastStep = "shift"
    /\ \E k \in 1..Len(wallsToShift) : wallsToShift[k].toWall
    /\ \E k \in 1..Len(wallsToShift) : ~wallsToShift[k].toWall

C10_RefinementLeavesZoneUnchanged ==
    lastStep \in RefinementSteps => Changed(prevGrid, mazeGrid) \cap ExclusionZone = {}

C12_ExitOnEdgeSetByCreateExit ==
    /\ [](/\ isInBounds(exitPosition.x, exitPosition.y)
          /\ \/ exitPosition.x = 0 \/ exitPosition.x = width - 1
             \/ exitPosition.y = 0 \/ exitPosition.y = height - 1)
    /\ [][exitPosition' # exitPosition => lastStep' = "createExit"]_vars

\* a regeneration moved the exit to the right edge and a shift has since changed cells
C12_Witness ==
    /\ generations = 2 /\ pc = "ready" /\ lastStep = "shift"
    /\ exitPosition.x = width - 1
    /\ exitPosition.y > 0 /\ exitPosition.y < height - 1
    /\ mazeGrid # prevGrid

(***************************************************************************)
(* C13.  Constructing a maze with width <= 0 or height <= 0 is rejected at *)
(* construction: no MazeGenerator with a grid is produced and              *)
(* generateMaze() is never reached with such dimensions, also when the     *)
(* dimensions come from the room options.                                  *)
(***************************************************************************)
C13_InvalidDimensionsRejected ==
    (width <= 0 \/ height <= 0) => pc \notin {"constructed", "generateMaze"}

(***************************************************************************)
(* C14.  When the grid has no path cell other than the exit,               *)
(* ensureMazeIsSolvable() repairs nothing: it returns and leaves every     *)
(* grid cell unchanged.                                                    *)
(***************************************************************************)
C14_NoProbeNoRepair ==
    (pc \in {"validated", "revalidated"} /\ findStartCell(prevGrid, exitPosition) = NoCell)
        => mazeGrid = prevGrid

\* the validator has returned on a grid whose only path cell is the exit, away from (0, 0)
C14_Witness ==
    /\ pc = "validated"
    /\ startCell = NoCell
    /\ exitPosition # [x |-> 0, y |-> 0]
    /\ ~prevGrid[exitPosition.x][exitPosition.y]
    /\ mazeGrid = prevGrid

(***************************************************************************)
(* C15.  With the default configuration each of the four generator         *)
(* strategies (Prim, geometric, concentric, symmetric) can be the one      *)
(* generateMaze() runs: each is selected by some random draw.              *)
(***************************************************************************)
\* the strategies selected over all values Math.random() can take
SelectableStrategies == {selectedStrategy(drawPatternType(k)) : k \in 0..65535}

RoomView(code) ==
    IF rooms[code].mazeGenerator = 0
    THEN [grid |-> << >>, exitPosition |-> NoCell, nextShiftTime |-> 0]
    ELSE LET generator == generators[rooms[code].mazeGenerator]
         IN  [grid |-> grids[generator.mazeGrid], exitPosition |-> generator.exitPosition,
              nextShiftTime |-> generator.nextShiftTime]

RoomViewChanged(code) == RoomView(code)' # RoomView(code)

\* a step changes the generator, grid, exit or countdown of its own room only
RoomStepIsLocal ==
    /\ \A c \in RoomCodes :
           (rooms'[c].mazeGenerator # rooms[c].mazeGenerator)
               => \/ /\ lastStep' = "startGame"
                     /\ rooms'[c].mazeGenerator \notin LiveGenerators
                     /\ generators'[rooms'[c].mazeGenerator].mazeGrid \notin LiveGrids
                  \/ /\ lastStep' = "leaveRoom"
                     /\ rooms'[c] = NoRoom
    /\ \A c \in RoomCodes :
           RoomViewChanged(c)
               => \/ lastStep' = "startGame" /\ rooms[c].state # "playing"
                                             /\ rooms'[c].state = "playing"
                  \/ lastStep' = "updateMaze" /\ rooms[c].state = "playing"
                  \/ lastStep' = "leaveRoom" /\ rooms'[c] = NoRoom
    /\ \A c1, c2 \in RoomCodes :
           (RoomViewChanged(c1) /\ RoomViewChanged(c2)) => c1 = c2

\* C16: rooms that have a generator have different generators with different
\* grid arrays; startGame() gives its room a generator and a grid array that
\* no room referenced; and a step (a tick's updateMaze, a startGame, the
\* removal of a room) changes the grid, exit and countdown of at most one
\* room, the room it runs for.
C16_RoomsAreIsolated ==
    /\ [](\A c1, c2 \in RoomCodes :
            (c1 # c2 /\ rooms[c1].mazeGenerator # 0 /\ rooms[c2].mazeGenerator # 0)
                => /\ rooms[c1].mazeGenerator # rooms[c2].mazeGenerator
                   /\ generators[rooms[c1].mazeGenerator].mazeGrid
                        # generators[rooms[c2].mazeGenerator].mazeGrid)
    /\ [][RoomStepIsLocal]_vars

\* two rooms hold a maze and a firing has just changed the grid of one of them
C16_Witness ==
    /\ \A c \in RoomCodes : rooms[c].mazeGenerator # 0
    /\ tick # NoTick
    /\ RoomView(tick.room).grid # rooms[tick.room].handed

\* C17: the grid seen through the maze a room's GameManager holds has the
\* contents it had when that maze was handed over.
C17_HandedMazeIsSnapshot ==
    \A c \in RoomCodes :
        rooms[c].mazeGenerator # 0 => grids[rooms[c].maze.grid] = rooms[c].handed


\* C19: after a firing, every cell that differs between the grid at the start
\* of the firing and the grid with the batch applied (before the repair) was,
\* in the start grid, a Wall with at most 2 open orthogonal neighbours that
\* became Path, or a Path with at least 3 open orthogonal neighbours that
\* became Wall.
C19_BatchFollowsRuleOnStartGrid ==
    lastStep = "shift" =>
        \A c \in Cells :
            batchGrid[c.x][c.y] # prevGrid[c.x][c.y]
                => \/ /\ prevGrid[c.x][c.y]
                      /\ adjacentPaths(prevGrid, c.x, c.y) <= 2
                      /\ ~batchGrid[c.x][c.y]
                   \/ /\ ~prevGrid[c.x][c.y]
                      /\ adjacentPaths(prevGrid, c.x, c.y) >= 3
                      /\ batchGrid[c.x][c.y]

\* a firing whose batch opened a wall and walled a path next to each other
C19_Witness ==
    /\ lastStep = "shift"
    /\ \E c, d \in Cells :
           /\ (c.x - d.x) * (c.x - d.x) + (c.y - d.y) * (c.y - d.y) = 1
           /\ prevGrid[c.x][c.y] /\ ~batchGrid[c.x][c.y]
           /\ ~prevGrid[d.x][d.y] /\ batchGrid[d.x][d.y]


\* the cells between a and b, both included
Between(a, b) == IF a <= b THEN a..b ELSE b..a

\* the L-shaped corridor from S to E: along S's row to E's column, then along E's column
Corridor(S, E) ==
    {[x |-> cx, y |-> S.y] : cx \in Between(S.x, E.x)}
        \cup {[x |-> E.x, y |-> cy] : cy \in Between(S.y, E.y)}

(***************************************************************************)
(* C20.  When the probe cell S does not reach the exit E, the repair       *)
(* leaves every cell of the corridor (x, S.y), x between S.x and E.x, and  *)
(* (E.x, y), y between S.y and E.y, Path; every other cell keeps its       *)
(* state; no cell goes from Path to Wall; the grid keeps its shape (no     *)
(* index out of bounds was written); and S reaches E.                      *)
(***************************************************************************)
C20_RepairCarvesCorridorOnly ==
    (pc \in {"validated", "revalidated"} /\ startCell # NoCell /\ ~foundPath)
        => /\ \A c \in Corridor(startCell, exitPosition) : ~mazeGrid[c.x][c.y]
           /\ \A c \in Cells \ Corridor(startCell, exitPosition) :
                  mazeGrid[c.x][c.y] = prevGrid[c.x][c.y]
           /\ \A c \in Cells : ~prevGrid[c.x][c.y] => ~mazeGrid[c.x][c.y]
           /\ Corridor(startCell, exitPosition) \subseteq Cells
           /\ DOMAIN mazeGrid = 0..(width - 1)
           /\ \A x \in 0..(width - 1) : DOMAIN mazeGrid[x] = 0..(height - 1)
           /\ startCell \in ExitComponent(mazeGrid, exitPosition)

\* a repair with both legs: S and E differ in both coordinates and walls were opened
\* on S's row and on E's column
C20_Witness ==
    /\ pc = "validated"
    /\ startCell # NoCell
    /\ ~foundPath
    /\ startCell.x # exitPosition.x
    /\ startCell.y # exitPosition.y
    /\ prevGrid[exitPosition.x][startCell.y]
    /\ ~mazeGrid[exitPosition.x][startCell.y]
    /\ prevGrid[exitPosition.x][exitPosition.y]
    /\ ~mazeGrid[exitPosition.x][exitPosition.y]


\* the in-bounds orthogonal neighbours of a cell
Neighbours(c) ==
    {n \in Cells : (n.x - c.x) * (n.x - c.x) + (n.y - c.y) * (n.y - c.y) = 1}

(***************************************************************************)
(* C21.  After the batch of a firing is applied, no Path cell next to a    *)
(* cell the batch turned from Path to Wall has fewer than two open         *)
(* orthogonal neighbours.                                                  *)
(***************************************************************************)
C21_WallingLeavesNoDeadEnd ==
    lastStep = "shift" =>
        \A c \in Cells :
            (~prevGrid[c.x][c.y] /\ batchGrid[c.x][c.y])
                => \A n \in Neighbours(c) :
                       ~batchGrid[n.x][n.y] => adjacentPaths(batchGrid, n.x, n.y) >= 2


(***************************************************************************)
(* C22.  When an iteration of addRandomVariations() turns a Path cell into *)
(* a Wall, every Path cell next to it has at least one open orthogonal     *)
(* neighbour left.                                                         *)
(***************************************************************************)
C22_NoiseStrandsNoNeighbour ==
    lastStep = "variationIteration" =>
        \A c \in Cells :
            (~prevGrid[c.x][c.y] /\ mazeGrid[c.x][c.y])
                => \A n \in Neighbours(c) :
                       ~mazeGrid[n.x][n.y] => adjacentPaths(mazeGrid, n.x, n.y) >= 1

\* an iteration walled a path cell that had an open neighbour
C22_Witness ==
    /\ lastStep = "variationIteration"
    /\ \E c \in Cells :
           /\ ~prevGrid[c.x][c.y]
           /\ mazeGrid[c.x][c.y]
           /\ \E n \in Neighbours(c) : ~mazeGrid[n.x][n.y]


\* the path cells of a grid
PathCells(g) == {c \in Cells : ~g[c.x][c.y]}

\* the cells at an even offset, in both coordinates, from a cell
Lattice(S) == {c \in Cells : (c.x - S.x) % 2 = 0 /\ (c.y - S.y) % 2 = 0}

\* the pairs of orthogonally adjacent path cells, each pair taken once
AdjacentPathPairs(g) ==
    {pair \in PathCells(g) \X PathCells(g) :
        \/ pair[2].x = pair[1].x + 1 /\ pair[2].y = pair[1].y
        \/ pair[2].x = pair[1].x /\ pair[2].y = pair[1].y + 1}

(***************************************************************************)
(* C23.  After runPrimsAlgorithm() on an all-wall grid, every cell at an   *)
(* even offset from the start cell is Path; the Path cells are connected;  *)
(* with L lattice cells there are exactly L - 1 other Path cells, each     *)
(* between two lattice cells; and the adjacency graph of the Path cells    *)
(* has one edge less than it has cells (it is a tree).                     *)
(***************************************************************************)
C23_PrimCarvesSpanningTree ==
    pc = "prim" =>
        /\ \A c \in Lattice(startCell) : ~mazeGrid[c.x][c.y]
        /\ Flood(mazeGrid, {startCell}, {startCell}) = PathCells(mazeGrid)
        /\ Cardinality(PathCells(mazeGrid) \ Lattice(startCell))
              = Cardinality(Lattice(startCell)) - 1
        /\ \A c \in PathCells(mazeGrid) \ Lattice(startCell) :
               ((c.x - startCell.x) % 2) + ((c.y - startCell.y) % 2) = 1
        /\ Cardinality(AdjacentPathPairs(mazeGrid)) = Cardinality(PathCells(mazeGrid)) - 1

\* a run on a grid of odd width from a start cell at an odd column, which leaves
\* both border columns walls
C23_Witness ==
    /\ pc = "prim"
    /\ width % 2 = 1
    /\ startCell.x % 2 = 1
    /\ Cardinality(Lattice(startCell)) > 4
    /\ \A y \in 0..(height - 1) : mazeGrid[0][y] /\ mazeGrid[width - 1][y]


\* the search has pushed no cell twice: every push marked a cell that was not visited
EachCellPushedOnce ==
    pc = "search" =>
        /\ loop.pushes = Cardinality(loop.visited)
        /\ loop.pushes <= width * height
        /\ \A j, k \in 1..Len(loop.queue) : loop.queue[j] = loop.queue[k] => j = k

\* the walks end at the exit's column and then at the exit's row
WalkEndsAtExit ==
    /\ pc = "walkVertical" => loop.x = exitPosition.x
    /\ lastStep = "createPathToExit" => loop.x = exitPosition.x /\ loop.y = exitPosition.y

(***************************************************************************)
(* C24.  Termination: the search pushes each cell at most once, the walks  *)
(* of the repair end at the exit's column and row, the frontier loop once  *)
(* entered empties its frontier and returns, and the validator once        *)
(* entered (by generateMaze() or by a shift firing) returns.               *)
(***************************************************************************)
C24_LoopsTerminate ==
    /\ [](EachCellPushedOnce /\ WalkEndsAtExit)
    /\ (pc = "prim") ~> (pc = "pattern" /\ Len(loop.frontiers) = 0)
    /\ (pc \in {"variations", "batch", "search", "searched", "walkHorizontal", "walkVertical"})
           ~> (pc = "ready")

\* the return of a repair that walked both ways, in a grid Prim's algorithm made
C24_Witness ==
    /\ lastStep = "createPathToExit"
    /\ startCell.x # exitPosition.x
    /\ startCell.y # exitPosition.y


(***************************************************************************)
(* C25.  updateMaze() on an instance on which generateMaze() has never     *)
(* completed fires no shift and leaves the grid as it was.                 *)
(***************************************************************************)
C25_NoShiftBeforeGeneration ==
    (lastStep \in {"shift", "countdown"} /\ ~generated)
        => /\ lastStep # "shift"
           /\ ~returned
           /\ mazeGrid = prevGrid


\* a step of the game loop's body for a room keeps to the order of the loop:
\* updateMaze() at a playing room, then, when it returned true and only then,
\* setMaze() with the shifted maze and the broadcast of that maze
TickStepInOrder ==
    /\ lastStep' = "updateMaze"
           => /\ tick = NoTick
              /\ \E c \in RoomCodes : RoomViewChanged(c)
              /\ \A c \in RoomCodes :
                     RoomViewChanged(c)
                         => /\ rooms[c].state = "playing"
                            /\ tick' \in {NoTick, [room |-> c, mazeUpdated |-> TRUE]}
                            /\ (tick' # NoTick) <=> (RoomView(c)'.nextShiftTime
                                                        = shiftInterval * 1000)
              /\ rooms' = rooms
    /\ lastStep' = "mazeUpdated"
           => /\ tick # NoTick
              /\ tick.mazeUpdated
              /\ rooms[tick.room].state = "playing"
              /\ rooms'[tick.room].maze = getMaze(generators[rooms[tick.room].mazeGenerator])
              /\ rooms'[tick.room].handed = RoomView(tick.room).grid
              /\ \A c \in RoomCodes : c # tick.room => rooms'[c] = rooms[c]
    /\ tick # NoTick
           => /\ tick' = NoTick
              /\ lastStep' = "mazeUpdated"

(***************************************************************************)
(* C26.  The game loop calls updateMaze() for a room only when the room's  *)
(* state is 'playing', so the generator of a room in 'lobby' or 'ended' is *)
(* never touched by a tick; and the tick broadcasts 'mazeUpdated' to the   *)
(* room exactly when updateMaze() returned true, with the grid the         *)
(* generator has after the shift, which setMaze() has been given.          *)
(***************************************************************************)
C26_TickShiftsPlayingRoomsAndBroadcasts ==
    /\ [](tick # NoTick => rooms[tick.room].state = "playing")
    /\ [][TickStepInOrder]_vars

\* the shifted maze of one room was broadcast while the other room's game had ended
C26_Witness ==
    /\ lastStep = "mazeUpdated"
    /\ \E c, d \in RoomCodes :
           /\ rooms[c].state = "playing"
           /\ rooms[c].handed = RoomView(c).grid
           /\ rooms[d].state = "ended"
           /\ rooms[d].mazeGenerator # 0

(***************************************************************************)
(* C27.  Liveness: while updateMaze() keeps being called on a generated    *)
(* maze with a positive deltaTime, a shift fires, and after every firing   *)
(* another one fires (up to the number of firings that is explored).       *)
(***************************************************************************)
C27_ShiftsKeepFiring ==
    \A k \in 0..(MaxShiftFirings - 1) :
        (generated /\ pc = "ready" /\ firings = k) ~> (pc = "ready" /\ firings = k + 1)

\* a second firing has returned, after a call that only counted down
C27_Witness ==
    /\ generated
    /\ pc = "ready"
    /\ firings = 2
    /\ prevShiftTime < shiftInterval * 1000
    /\ nextShiftTime = shiftInterval * 1000

\* one call of updateMaze(): at most one firing, after which the countdown is the
\* whole interval; otherwise the countdown has gone down by deltaTime
OneCallOneShift ==
    (lastStep' \in {"shift", "countdown"})
        => IF prevShiftTime' - lastDelta' <= 0
           THEN /\ lastStep' = "shift"
                /\ returned'
                /\ firings' = firings + 1
                /\ nextShiftTime' = shiftInterval * 1000
           ELSE /\ lastStep' = "countdown"
                /\ ~returned'
                /\ firings' = firings
                /\ nextShiftTime' = nextShiftTime - lastDelta'
                /\ mazeGrid' = mazeGrid

(***************************************************************************)
(* C28.  One call of updateMaze(deltaTime) fires at most one shift however *)
(* large deltaTime is; the time by which the countdown overshot zero is    *)
(* dropped, the countdown starting again from the whole shiftInterval.     *)
(***************************************************************************)
C28_OvershootIsDiscarded == [][OneCallOneShift]_vars

\* a firing by a call whose deltaTime took the countdown below zero
C28_Witness ==
    /\ generated
    /\ lastStep = "shift"
    /\ prevShiftTime - lastDelta < 0
    /\ nextShiftTime = shiftInterval * 1000
    /\ firings = 2

\* the path cells orthogonally next to the exit
ExitNeighbourPaths == {n \in Neighbours(exitPosition) : ~mazeGrid[n.x][n.y]}

(***************************************************************************)
(* C29.  When generateMaze() has returned, and when a later firing has     *)
(* returned, a cell orthogonally next to exitPosition is a path cell, and  *)
(* the validator that ran last found a cell to start its search from: its  *)
(* return for want of one is not taken once the maze is generated.         *)
(***************************************************************************)
C29_ExitHasOpenNeighbour ==
    (generated /\ pc = "ready")
        => /\ ExitNeighbourPaths # {}
           /\ startCell # NoCell
           /\ startCell # exitPosition

\* a firing whose validator had to repair the grid has returned
C29_Witness ==
    /\ generated
    /\ pc = "ready"
    /\ lastStep = "shift"
    /\ ~foundPath
    /\ startCell # NoCell
    /\ ExitNeighbourPaths # {}

(***************************************************************************)
(* C30.  After any sequence of 'createRoom', 'joinRoom', 'leaveRoom' and   *)
(* 'disconnect' events every id in a room's players set is mapped by       *)
(* playerRooms to that room: a player is a member of at most one room, and *)
(* no room is kept whose members have all left or disconnected.            *)
(***************************************************************************)
C30_MembershipIsConsistent ==
    /\ \A code \in RoomCodes : \A id \in rooms[code].players : playerRooms[id] = code
    /\ \A id \in PlayerIds : Cardinality({code \in RoomCodes : id \in rooms[code].players}) <= 1
    /\ \A code \in RoomCodes : rooms[code].state # "absent" => rooms[code].players # {}

====
